---- MODULE Spec2Model ----
(***************************************************************************)
(* A model of libucl: the streaming parser (ucl_parser.c), the include     *)
(* macros and the value lifecycle (ucl_util.c).                            *)
(*                                                                         *)
(* Bytes are one-character strings, a buffer is a sequence of bytes.       *)
(* Pointers into a buffer are 1-based indices: begin = 1 and               *)
(* end = Len(data) + 1.  The C code reads the byte at `end` (and a little  *)
(* beyond) in several places; what it finds there is not defined by the    *)
(* API, so the model draws it from OverBytes (variable `over`).            *)
(***************************************************************************)
EXTENDS Integers, Sequences, FiniteSets, TLC

VARIABLES
    parser,   \* struct ucl_parser
    objs,     \* the heap of ucl_object_t, indexed by object id
    frames,   \* active invocations of ucl_state_machine, innermost last
    err,      \* the caller's UT_string *err
    over,     \* the byte that follows every input buffer
    hist,     \* what the caller has observed (return values, references held)
    os,       \* the build and what the process holds: descriptors, mappings
    lx        \* harness of the lexer functions checked on their own

vars == <<parser, objs, frames, err, over, hist, os, lx>>

(***************************************************************************)
(* Bounds of the model.                                                    *)
(***************************************************************************)
MaxCommentLen == 5
MaxNumLen == 3

(***************************************************************************)
(* Bytes and their classes (ucl_chartable.h).                              *)
(***************************************************************************)
NUL == "NUL"

NULL == 0

OverBytes == {NUL, "/"}

Bytes(s) == [i \in 1..Len(s) |-> SubSeq(s, i, i)]

RECURSIVE SeqsUpTo(_, _)
SeqsUpTo(alphabet, n) ==
    IF n = 0 THEN {<<>>}
    ELSE LET shorter == SeqsUpTo(alphabet, n - 1)
         IN  shorter \cup {Append(s, b) : s \in shorter, b \in alphabet}

Digits == {"0", "1", "2", "3", "4", "5", "6", "7", "8", "9"}
Lower == {"a", "b", "c", "d", "e", "f", "g", "h", "i", "j", "k", "l", "m",
          "n", "o", "p", "q", "r", "s", "t", "u", "v", "w", "x", "y", "z"}
Upper == {"A", "B", "C", "D", "E", "F", "G", "H", "I", "J", "K", "L", "M",
          "N", "O", "P", "Q", "R", "S", "T", "U", "V", "W", "X", "Y", "Z"}

UCL_CHARACTER_KEY_START == Digits \cup Lower \cup Upper \cup {"/", "_"}
UCL_CHARACTER_KEY == UCL_CHARACTER_KEY_START \cup {"-", "."}
UCL_CHARACTER_WHITESPACE == {" ", "\t"}
UCL_CHARACTER_WHITESPACE_UNSAFE == {" ", "\t", "\n", "\r"}
UCL_CHARACTER_VALUE_END == {";", ",", "\n", "\r", "}", "]", NUL}
UCL_CHARACTER_VALUE_DIGIT_START == Digits \cup {"-"}
UCL_CHARACTER_ESCAPE == {"\"", "\\", "/", "b", "f", "n", "r", "t", "u"}
UCL_CHARACTER_KEY_SEP == {" ", "\t", "=", ":"}

ucl_test_character(c, type_flags) == c \in type_flags

(***************************************************************************)
(* struct ucl_chunk.  size_t arithmetic wraps; TLC's integers are 32 bits  *)
(* wide, so the modulus is 2^30 instead of 2^64 (buffers are far shorter). *)
(***************************************************************************)
SIZE_MOD == 2^30

NewChunk(data) ==
    [data |-> data, pos |-> 1, remain |-> Len(data), line |-> 1, column |-> 0]

End(chunk) == Len(chunk.data) + 1

ByteAt(chunk, i) ==
    IF i >= 1 /\ i <= Len(chunk.data) THEN chunk.data[i] ELSE over

Cur(chunk) == ByteAt(chunk, chunk.pos)

\* ucl_chunk_skipc (chunk, p): the macro looks at *p and advances chunk->pos;
\* the caller's p becomes p + 1
ucl_chunk_skipc_at(chunk, p) ==
    [chunk EXCEPT !.line   = IF ByteAt(chunk, p) = "\n" THEN @ + 1 ELSE @,
                  !.column = IF ByteAt(chunk, p) = "\n" THEN 0 ELSE @ + 1,
                  !.pos    = @ + 1,
                  !.remain = (@ - 1) % SIZE_MOD]

\* ucl_chunk_skipc (chunk, p) where p == chunk->pos
ucl_chunk_skipc(chunk) == ucl_chunk_skipc_at(chunk, chunk.pos)

ucl_chunk_save_state(chunk) ==
    [line |-> chunk.line, column |-> chunk.column,
     remain |-> chunk.remain, pos |-> chunk.pos]

ucl_chunk_restore_state(chunk, s) ==
    [chunk EXCEPT !.column = s.column, !.pos = s.pos,
                  !.line = s.line, !.remain = s.remain]

(***************************************************************************)
(* Errors.  The caller's UT_string is NoErr while it is NULL;               *)
(* ucl_create_err writes the message only then.  ucl_set_err formats the   *)
(* line, the column, the text and the byte at chunk->pos; it does not use  *)
(* its code argument.                                                      *)
(***************************************************************************)
NoErr == [msg |-> "NULL"]

ucl_create_err(e, text) == IF e = NoErr THEN text ELSE e

ucl_set_err(chunk, code, str, e) ==
    ucl_create_err(e, [msg |-> str, line |-> chunk.line,
                       column |-> chunk.column, character |-> Cur(chunk)])

(***************************************************************************)
(* ucl_skip_comments.  Results are [chunk, ok, err].                       *)
(***************************************************************************)
ucl_lex_is_comment(c1, c2) ==
    IF c1 = "/" THEN c2 = "*" ELSE c1 = "#"

RECURSIVE SkipStart(_, _, _, _), SkipLine(_, _, _, _), SkipBlock(_, _, _, _)

\* label start:
SkipStart(state, chunk, comments_nested, e) ==
    IF Cur(chunk) = "#"
    THEN IF state # "SCOMMENT" /\ state # "MCOMMENT"
         THEN SkipLine(state, chunk, comments_nested, e)
         ELSE [chunk |-> chunk, ok |-> TRUE, err |-> e]
    ELSE IF Cur(chunk) = "/" /\ chunk.remain >= 2
              /\ ByteAt(chunk, chunk.pos + 1) = "*"
    THEN SkipBlock(state, ucl_chunk_skipc(ucl_chunk_skipc(chunk)),
                   comments_nested + 1, e)
    ELSE [chunk |-> chunk, ok |-> TRUE, err |-> e]

\* the loop of the '#' branch
SkipLine(state, chunk, comments_nested, e) ==
    IF chunk.pos < End(chunk)
    THEN IF Cur(chunk) = "\n"
         THEN SkipStart(state, ucl_chunk_skipc(chunk), comments_nested, e)
         ELSE SkipLine(state, ucl_chunk_skipc(chunk), comments_nested, e)
    ELSE [chunk |-> chunk, ok |-> TRUE, err |-> e]

\* the loop of the '/*' branch
SkipBlock(state, chunk, comments_nested, e) ==
    IF chunk.pos < End(chunk)
    THEN IF Cur(chunk) = "*"
         THEN LET c1 == ucl_chunk_skipc(chunk)
              IN  IF Cur(c1) = "/"
                  THEN IF comments_nested - 1 = 0
                       THEN SkipStart(state, ucl_chunk_skipc(c1), 0, e)
                       ELSE SkipBlock(state,
                                ucl_chunk_skipc(ucl_chunk_skipc(c1)),
                                comments_nested - 1, e)
                  ELSE SkipBlock(state, ucl_chunk_skipc(ucl_chunk_skipc(c1)),
                                 comments_nested, e)
         ELSE IF Cur(chunk) = "/" /\ chunk.remain >= 2
                   /\ ByteAt(chunk, chunk.pos + 1) = "*"
         THEN SkipBlock(state, ucl_chunk_skipc(ucl_chunk_skipc(chunk)),
                        comments_nested + 1, e)
         ELSE SkipBlock(state, ucl_chunk_skipc(chunk), comments_nested, e)
    ELSE IF comments_nested # 0
    THEN [chunk |-> chunk, ok |-> FALSE,
          err |-> ucl_set_err(chunk, "UCL_ENESTED",
                              "comments nesting is invalid", e)]
    ELSE [chunk |-> chunk, ok |-> TRUE, err |-> e]

ucl_skip_comments(state, chunk, e) == SkipStart(state, chunk, 0, e)

(***************************************************************************)
(* Numbers.  A numeric value is kept as written, so that no arithmetic of   *)
(* the model can overflow: the value is                                     *)
(*     (neg ? -1 : 1) * digits * 10^scale * mult,                           *)
(* truncated to an integer before the multiplication when trunc is set     *)
(* (the C assignment lv = dv).                                              *)
(***************************************************************************)
RECURSIVE DigitsEnd(_, _)
\* the first index >= i whose byte is not a decimal digit
DigitsEnd(chunk, i) ==
    IF ByteAt(chunk, i) \in Digits THEN DigitsEnd(chunk, i + 1) ELSE i

Slice(chunk, from, to) == [i \in 1..(to - from) |-> ByteAt(chunk, from + i - 1)]

RECURSIVE StripZeros(_)
StripZeros(ds) ==
    IF Len(ds) > 1 /\ Head(ds) = "0" THEN StripZeros(Tail(ds)) ELSE ds

DigitVal(d) == CHOOSE v \in 0..9 : Bytes("0123456789")[v + 1] = d

RECURSIVE DecimalVal(_)
DecimalVal(ds) ==
    IF ds = <<>> THEN 0
    ELSE 10 * DecimalVal(SubSeq(ds, 1, Len(ds) - 1)) + DigitVal(ds[Len(ds)])

RECURSIVE DigitsLess(_, _)
\* a < b for digit strings of equal length
DigitsLess(a, b) ==
    IF a = <<>> THEN FALSE
    ELSE IF Head(a) # Head(b) THEN DigitVal(Head(a)) < DigitVal(Head(b))
    ELSE DigitsLess(Tail(a), Tail(b))

INTMAX_MAX_DIGITS == Bytes("9223372036854775807")
INTMAX_MIN_DIGITS == Bytes("9223372036854775808")

\* does the magnitude ds (with sign neg) leave the range of intmax_t
IntOutOfRange(neg, ds) ==
    LET d == StripZeros(ds)
        limit == IF neg THEN INTMAX_MIN_DIGITS ELSE INTMAX_MAX_DIGITS
    IN  \/ Len(d) > Len(limit)
        \/ Len(d) = Len(limit) /\ DigitsLess(limit, d)

\* strtoimax (c, &endptr, 10): [sign] digits, c itself when there is no digit
strtoimax(chunk, c) ==
    LET neg   == ByteAt(chunk, c) = "-"
        first == IF ByteAt(chunk, c) \in {"-", "+"} THEN c + 1 ELSE c
        last  == DigitsEnd(chunk, first)
        ds    == Slice(chunk, first, last)
    IN  IF last = first
        THEN [endptr |-> c, erange |-> FALSE,
              value |-> [neg |-> FALSE, digits |-> <<"0">>, scale |-> 0,
                         mult |-> 1, trunc |-> FALSE]]
        ELSE [endptr |-> last, erange |-> IntOutOfRange(neg, ds),
              value |-> [neg |-> neg, digits |-> StripZeros(ds), scale |-> 0,
                         mult |-> 1, trunc |-> FALSE]]

\* strtod (c, &endptr): [sign] digits [. digits] [(e|E) [sign] digits];
\* ERANGE when the value leaves the decimal exponent range of a double
strtod(chunk, c) ==
    LET neg      == ByteAt(chunk, c) = "-"
        first    == IF ByteAt(chunk, c) \in {"-", "+"} THEN c + 1 ELSE c
        intEnd   == DigitsEnd(chunk, first)
        hasDot   == ByteAt(chunk, intEnd) = "."
        fracEnd  == IF hasDot THEN DigitsEnd(chunk, intEnd + 1) ELSE intEnd
        intDs    == Slice(chunk, first, intEnd)
        fracDs   == IF hasDot THEN Slice(chunk, intEnd + 1, fracEnd) ELSE <<>>
        noDigits == intDs = <<>> /\ fracDs = <<>>
        hasE     == ByteAt(chunk, fracEnd) \in {"e", "E"}
        expNeg   == hasE /\ ByteAt(chunk, fracEnd + 1) = "-"
        expFirst == IF hasE /\ ByteAt(chunk, fracEnd + 1) \in {"-", "+"}
                    THEN fracEnd + 2 ELSE fracEnd + 1
        expEnd   == IF hasE THEN DigitsEnd(chunk, expFirst) ELSE fracEnd
        hasExp   == hasE /\ expEnd > expFirst
        expDs    == StripZeros(Slice(chunk, expFirst, expEnd))
        \* an exponent of five digits or more is out of range whatever the
        \* mantissa of an atom is
        expMag   == IF ~ hasExp THEN 0
                    ELSE IF Len(expDs) > 4 THEN 9999
                    ELSE DecimalVal(expDs)
        exp      == IF expNeg THEN 0 - expMag ELSE expMag
        mant     == StripZeros(intDs \o fracDs)
        \* decimal exponent of the leading digit of the value
        lead     == Len(mant) - 1 - Len(fracDs) + exp
    IN  IF noDigits
        THEN [endptr |-> c, erange |-> FALSE,
              value |-> [neg |-> FALSE, digits |-> <<"0">>, scale |-> 0,
                         mult |-> 1, trunc |-> FALSE]]
        ELSE [endptr |-> IF hasExp THEN expEnd ELSE fracEnd,
              erange |-> /\ mant # <<"0">>
                         /\ (lead > 308 \/ lead < -307),
              value |-> [neg |-> neg, digits |-> mant,
                         scale |-> exp - Len(fracDs),
                         mult |-> 1, trunc |-> FALSE]]

tolower(c) ==
    IF c \in Upper
    THEN Bytes("abcdefghijklmnopqrstuvwxyz")[
             CHOOSE i \in 1..26 : Bytes("ABCDEFGHIJKLMNOPQRSTUVWXYZ")[i] = c]
    ELSE c

ucl_lex_num_multiplier(c, is_bytes) ==
    CASE tolower(c) = "m" -> IF is_bytes THEN 1024 * 1024 ELSE 1000 * 1000
      [] tolower(c) = "k" -> IF is_bytes THEN 1024 ELSE 1000
      [] tolower(c) = "g" -> IF is_bytes THEN 1024 * 1024 * 1024
                             ELSE 1000 * 1000 * 1000
      [] OTHER -> 1

ucl_lex_time_multiplier(c) ==
    CASE tolower(c) = "m" -> 60
      [] tolower(c) = "h" -> 60 * 60
      [] tolower(c) = "d" -> 60 * 60 * 24
      [] tolower(c) = "w" -> 60 * 60 * 24 * 7
      [] tolower(c) = "y" -> 60 * 60 * 24 * 7 * 365
      [] OTHER -> 1

ucl_lex_is_atom_end(c) == ucl_test_character(c, UCL_CHARACTER_VALUE_END)

(***************************************************************************)
(* ucl_lex_number.  The result is                                          *)
(*   [ret, chunk, err, state, prev_state, type, value]:                    *)
(* the return value, the chunk and the error as the function leaves them,  *)
(* the parser's state and prev_state (changed on ERANGE), and what was     *)
(* written to obj (type "none" when obj was not written).                  *)
(***************************************************************************)
AsDouble(v) == v

\* lv = dv
AsInt(v) == [v EXCEPT !.trunc = TRUE]

Times(v, m) == [v EXCEPT !.mult = @ * m]

\* dv /= 1000.
DivThousand(v) == [v EXCEPT !.scale = @ - 3]

RECURSIVE NumScan(_, _, _, _, _, _)
\* the loop over the digits; got_dot \/ got_exp is need_double
NumScan(chunk, c, s, got_dot, got_exp, e) ==
    LET ret(ch, ee) == [returned |-> TRUE, chunk |-> ch, err |-> ee]
        brk == [returned |-> FALSE, chunk |-> chunk, err |-> e,
                need_double |-> got_dot \/ got_exp]
    IN
    IF chunk.pos < End(chunk)
    THEN IF Cur(chunk) \in Digits
         THEN NumScan(ucl_chunk_skipc(chunk), c, s, got_dot, got_exp, e)
         ELSE IF chunk.pos = c
         THEN ret(ucl_chunk_restore_state(chunk, s), e)
         ELSE IF Cur(chunk) = "."
         THEN IF got_dot
              THEN ret(ucl_chunk_restore_state(chunk, s), e)
              ELSE NumScan(ucl_chunk_skipc(chunk), c, s, TRUE, got_exp, e)
         ELSE IF Cur(chunk) \in {"e", "E"}
         THEN IF got_exp
              THEN ret(chunk, e)
              ELSE LET c1 == ucl_chunk_skipc(chunk)
                   IN  IF c1.pos >= End(c1)
                       THEN ret(ucl_chunk_restore_state(c1, s), e)
                       ELSE IF Cur(c1) \notin Digits \cup {"+", "-"}
                       THEN ret(ucl_chunk_restore_state(c1, s),
                                ucl_set_err(c1, "UCL_ESYNTAX",
                                    "wrong character after exponent", e))
                       ELSE NumScan(ucl_chunk_skipc(c1), c, s, got_dot, TRUE, e)
         ELSE brk
    ELSE brk

\* set_obj:
NumSetObj(chunk, state, prev_state, e, need_double, is_date, v) ==
    [ret |-> TRUE, chunk |-> chunk, err |-> e,
     state |-> state, prev_state |-> prev_state,
     type |-> IF need_double \/ is_date
              THEN IF is_date THEN "UCL_TIME" ELSE "UCL_FLOAT"
              ELSE "UCL_INT",
     value |-> v]

NumFail(chunk, state, prev_state, e) ==
    [ret |-> FALSE, chunk |-> chunk, err |-> e,
     state |-> state, prev_state |-> prev_state,
     type |-> "none", value |-> "none"]

\* the switch over the suffix, entered with p = endptr and chunk->pos = p
NumSuffix(chunk, c, state, prev_state, e, need_double, v) ==
    LET p  == chunk.pos
        p0 == ByteAt(chunk, p)
        p1 == ByteAt(chunk, p + 1)
        p2 == ByteAt(chunk, p + 2)
        skip1 == ucl_chunk_skipc(chunk)
        skip2 == ucl_chunk_skipc(skip1)
        skip3 == ucl_chunk_skipc(skip2)
        notNumber == NumFail([chunk EXCEPT !.pos = c], state, prev_state, e)
    IN
    IF p0 \in {"m", "M", "g", "G", "k", "K"}
    THEN IF End(chunk) - p > 2
         THEN IF p1 \in {"s", "S"}
              THEN NumSetObj(skip2, state, prev_state, e, TRUE, TRUE,
                       IF p0 \in {"m", "M"}
                       THEN DivThousand(AsDouble(v))
                       ELSE Times(AsDouble(v),
                                  ucl_lex_num_multiplier(p0, FALSE)))
              ELSE IF p1 \in {"b", "B"}
              THEN NumSetObj(skip2, state, prev_state, e, FALSE, FALSE,
                       Times(IF need_double THEN AsInt(v) ELSE v,
                             ucl_lex_num_multiplier(p0, TRUE)))
              ELSE IF ucl_lex_is_atom_end(p1)
              THEN NumSetObj(skip1, state, prev_state, e, need_double, FALSE,
                       Times(v, ucl_lex_num_multiplier(p0, FALSE)))
              ELSE IF End(chunk) - p >= 3
                      /\ tolower(p0) = "m" /\ tolower(p1) = "i"
                      /\ tolower(p2) = "n"
              THEN NumSetObj(skip3, state, prev_state, e, TRUE, TRUE,
                       Times(AsDouble(v), 60))
              ELSE notNumber
         ELSE NumSetObj(skip1, state, prev_state, e, need_double, FALSE,
                  Times(v, ucl_lex_num_multiplier(p0, FALSE)))
    ELSE IF p0 \in {"S", "s"}
    THEN IF p = End(chunk) - 1 \/ ucl_lex_is_atom_end(p1)
         THEN NumSetObj(skip1, state, prev_state, e, TRUE, TRUE, AsDouble(v))
         ELSE notNumber
    ELSE IF p0 \in {"h", "H", "d", "D", "w", "W", "Y", "y"}
    THEN IF p = End(chunk) - 1 \/ ucl_lex_is_atom_end(p1)
         THEN NumSetObj(skip1, state, prev_state, e, TRUE, TRUE,
                  Times(AsDouble(v), ucl_lex_time_multiplier(p0)))
         ELSE notNumber
    ELSE notNumber

\* ucl_lex_number without the test of errno after the conversion
NumConvertedUnchecked(state, prev_state, chunk, s, scan, conv) ==
    NumSetObj(scan.chunk, state, prev_state, scan.err, scan.need_double,
              FALSE, conv.value)

\* ucl_lex_number once strtod or strtoimax has converted the digits: conv
NumConverted(state, prev_state, chunk, s, scan, conv) ==
    IF conv.erange
    THEN NumFail(ucl_chunk_restore_state(scan.chunk, s), "ERROR", state,
                 ucl_set_err(scan.chunk, "UCL_ESYNTAX",
                             "numeric value is out of range", scan.err))
    ELSE IF ucl_lex_is_atom_end(ByteAt(chunk, conv.endptr))
            \/ ByteAt(chunk, conv.endptr) = NUL
    \* chunk->pos = endptr; goto set_obj, which sets chunk->pos = p
    THEN NumSetObj(scan.chunk, state, prev_state, scan.err,
                   scan.need_double, FALSE, conv.value)
    ELSE IF conv.endptr < End(chunk)
    THEN NumSuffix([scan.chunk EXCEPT !.pos = conv.endptr], chunk.pos, state,
                   prev_state, scan.err, scan.need_double, conv.value)
    ELSE NumFail([scan.chunk EXCEPT !.pos = chunk.pos], state, prev_state,
                 scan.err)

\* ucl_lex_number once its first loop has scanned the digits: scan
NumScanned(state, prev_state, chunk, s, scan) ==
    IF scan.returned
    THEN NumFail(scan.chunk, state, prev_state, scan.err)
    ELSE NumConverted(state, prev_state, chunk, s, scan,
                      IF scan.need_double THEN strtod(chunk, chunk.pos)
                      ELSE strtoimax(chunk, chunk.pos))

ucl_lex_number(state, prev_state, chunk, e) ==
    NumScanned(state, prev_state, chunk, ucl_chunk_save_state(chunk),
               NumScan(IF Cur(chunk) = "-" THEN ucl_chunk_skipc(chunk)
                       ELSE chunk,
                       chunk.pos, ucl_chunk_save_state(chunk), FALSE, FALSE, e))

(***************************************************************************)
(* The heap of ucl_object_t.  An object is                                 *)
(*   [type, key, sv, nv, hash, head, next, ref, live]:                     *)
(* sv is the string value, nv the numeric or boolean value, hash the       *)
(* uthash table value.ov of an object (the ids of the first value of each  *)
(* key, in the order they were added), head the utlist head value.ov of an *)
(* array, next the sibling link.  A freed object stays in the heap with    *)
(* live = FALSE, so that a dangling pointer can be told from a valid one.  *)
(***************************************************************************)
ZeroNum == [neg |-> FALSE, digits |-> <<"0">>, scale |-> 0, mult |-> 1,
            trunc |-> FALSE]

OneNum == [ZeroNum EXCEPT !.digits = <<"1">>]

\* ucl_object_new (): a zeroed object holding one reference
ucl_object_new ==
    [type |-> "UCL_NULL", key |-> <<>>, sv |-> <<>>, nv |-> ZeroNum,
     hash |-> <<>>, head |-> NULL, next |-> NULL, ref |-> 1, live |-> TRUE]

RECURSIVE ChainFrom(_, _)
\* the objects linked from id by next, id first
ChainFrom(O, id) ==
    IF id = NULL THEN <<>> ELSE <<id>> \o ChainFrom(O, O[id].next)

\* DL_APPEND (head, add): add becomes the last element of the list of head
DL_APPEND(O, head, add) ==
    IF head = NULL THEN O
    ELSE LET chain == ChainFrom(O, head)
         IN  [O EXCEPT ![chain[Len(chain)]].next = add]

\* HASH_FIND (hh, container, key, keylen, tobj)
HASH_FIND(O, container, key) ==
    IF \E i \in 1..Len(container) : O[container[i]].key = key
    THEN container[CHOOSE i \in 1..Len(container) : O[container[i]].key = key]
    ELSE NULL

\* HASH_ADD_KEYPTR (hh, container, key, keylen, add)
HASH_ADD_KEYPTR(container, add) == Append(container, add)

(***************************************************************************)
(* The lexers of strings.  The bytes of the model hold no backslash, so    *)
(* the escape branch of ucl_lex_json_string (lines 499-531) is never       *)
(* entered and need_unescape stays false.                                  *)
(***************************************************************************)
ControlBytes == {"\n", "\r", "\t"}

RECURSIVE ucl_lex_json_string(_, _)
\* [ok, chunk, err]
ucl_lex_json_string(chunk, e) ==
    IF chunk.pos < End(chunk)
    THEN IF Cur(chunk) \in ControlBytes
         THEN [ok |-> FALSE, chunk |-> chunk,
               err |-> ucl_set_err(chunk, "UCL_ESYNTAX",
                          IF Cur(chunk) = "\n" THEN "unexpected newline"
                          ELSE "unexpected control character", e)]
         ELSE IF Cur(chunk) = "\""
         THEN [ok |-> TRUE, chunk |-> ucl_chunk_skipc(chunk), err |-> e]
         ELSE ucl_lex_json_string(ucl_chunk_skipc(chunk), e)
    ELSE [ok |-> FALSE, chunk |-> chunk, err |-> e]

RECURSIVE StringValueLoop(_, _, _, _, _)
\* braces[UCL_BRACE_FIGURE] is <<f0, f1>>, braces[UCL_BRACE_SQUARE] <<s0, s1>>
StringValueLoop(chunk, f0, f1, s0, s1) ==
    LET b == Cur(chunk)
        atEnd == ucl_lex_is_atom_end(b)
                 \/ ucl_lex_is_comment(b, ByteAt(chunk, chunk.pos + 1))
    IN
    IF chunk.pos < End(chunk)
    THEN IF b = "}" /\ f1 + 1 = f0
         THEN StringValueLoop(ucl_chunk_skipc(chunk), f0, f1 + 1, s0, s1)
         ELSE IF b = "]" /\ s1 + 1 = s0
         THEN StringValueLoop(ucl_chunk_skipc(chunk), f0, f1, s0, s1 + 1)
         ELSE IF atEnd THEN chunk
         ELSE StringValueLoop(ucl_chunk_skipc(chunk),
                  IF b = "{" THEN f0 + 1 ELSE f0,
                  IF b = "}" THEN f1 + 1 ELSE f1,
                  IF b = "[" THEN s0 + 1 ELSE s0,
                  IF b = "]" THEN s1 + 1 ELSE s1)
    ELSE chunk

\* [ok, chunk, err]
ucl_parse_string_value(chunk, e) ==
    LET after == StringValueLoop(chunk, 0, 0, 0, 0)
    IN  IF after.pos >= End(after)
        THEN [ok |-> FALSE, chunk |-> after,
              err |-> ucl_set_err(after, "UCL_ESYNTAX", "unfinished value", e)]
        ELSE [ok |-> TRUE, chunk |-> after, err |-> e]

\* strncasecmp (p, word, Len(word)) == 0
SameWord(text, word) ==
    /\ Len(text) >= Len(word)
    /\ \A i \in 1..Len(word) : tolower(text[i]) = word[i]

\* ucl_maybe_parse_boolean (obj, start, len): [ret, val]
ucl_maybe_parse_boolean(text) ==
    LET len == Len(text)
        is(w) == SameWord(text, Bytes(w))
    IN  CASE len = 5 /\ is("false") -> [ret |-> TRUE, val |-> FALSE]
          [] len = 4 /\ is("true")  -> [ret |-> TRUE, val |-> TRUE]
          [] len = 3 /\ is("off")   -> [ret |-> TRUE, val |-> FALSE]
          [] len = 3 /\ is("yes")   -> [ret |-> TRUE, val |-> TRUE]
          [] len = 2 /\ is("no")    -> [ret |-> TRUE, val |-> FALSE]
          [] len = 2 /\ is("on")    -> [ret |-> TRUE, val |-> TRUE]
          [] OTHER -> [ret |-> FALSE, val |-> FALSE]

RECURSIVE MultilineLoop(_, _, _, _, _)
\* the loop of ucl_parse_multiline_string; c is where the text begins
MultilineLoop(chunk, c, term, term_len, newline) ==
    LET p == chunk.pos
    IN
    IF p < End(chunk)
    THEN IF newline /\ End(chunk) - p < term_len
         THEN [len |-> 0, chunk |-> chunk]
         ELSE IF /\ newline
                 /\ Slice(chunk, p, p + term_len) = term
                 /\ ByteAt(chunk, p + term_len) \in {"\n", "\r"}
         THEN [len |-> p - c,
               chunk |-> [chunk EXCEPT !.remain = (@ - term_len) % SIZE_MOD,
                                       !.pos = p + term_len,
                                       !.column = term_len]]
         ELSE MultilineLoop(ucl_chunk_skipc(chunk), c, term, term_len,
                            Cur(chunk) = "\n")
    ELSE [len |-> 0, chunk |-> chunk]

\* [len, chunk]; *beg is the position of the chunk at the call
ucl_parse_multiline_string(chunk, term, term_len) ==
    MultilineLoop(chunk, chunk.pos, term, term_len, FALSE)

(***************************************************************************)
(* The parsers of the states.  Each takes the parser P, the heap O, the    *)
(* chunk being parsed and the error, and gives back what it made of them,  *)
(* with ok its return value.  hung marks a loop of the C code that can     *)
(* make no progress: ucl_skip_comments is called on a comment start it     *)
(* does not skip (chunk->remain < 2) and the loop comes back to it.        *)
(***************************************************************************)
Result(ok, hung, P, O, chunk, e) ==
    [ok |-> ok, hung |-> hung, parser |-> P, objs |-> O, chunk |-> chunk,
     err |-> e]

UCL_FLAG_KEY_LOWERCASE == "UCL_FLAG_KEY_LOWERCASE"

RECURSIVE KeyScan(_, _, _, _, _)
\* the first loop of ucl_parse_key: [status, chunk, err, c, end], status
\* "end" when the loop runs into chunk->end
KeyScan(state, chunk, c, got_quote, e) ==
    LET out(st, ch, ee, en) ==
            [status |-> st, chunk |-> ch, err |-> ee, c |-> c, end |-> en]
        b == Cur(chunk)
    IN
    IF chunk.pos < End(chunk)
    THEN IF c = NULL
         THEN IF ucl_lex_is_comment(b, ByteAt(chunk, chunk.pos + 1))
              THEN LET s == ucl_skip_comments(state, chunk, e)
                   IN  IF ~ s.ok THEN out("fail", s.chunk, s.err, NULL)
                       ELSE IF s.chunk = chunk THEN out("hung", chunk, e, NULL)
                       ELSE KeyScan(state, s.chunk, c, got_quote, s.err)
              ELSE IF ucl_test_character(b, UCL_CHARACTER_KEY_START)
              THEN KeyScan(state, ucl_chunk_skipc(chunk), chunk.pos, FALSE, e)
              ELSE IF b = "\""
              THEN KeyScan(state, ucl_chunk_skipc(chunk), chunk.pos + 1, TRUE, e)
              ELSE out("fail", chunk,
                       ucl_set_err(chunk, "UCL_ESYNTAX",
                                   "key must begin with a letter", e), NULL)
         ELSE IF ~ got_quote
         THEN IF ucl_test_character(b, UCL_CHARACTER_KEY)
              THEN KeyScan(state, ucl_chunk_skipc(chunk), c, got_quote, e)
              ELSE IF ucl_test_character(b, UCL_CHARACTER_KEY_SEP)
              THEN out("ok", chunk, e, chunk.pos)
              ELSE out("fail", chunk,
                       ucl_set_err(chunk, "UCL_ESYNTAX",
                                   "invalid character in a key", e), NULL)
         ELSE LET s == ucl_lex_json_string(chunk, e)
              IN  IF ~ s.ok THEN out("fail", s.chunk, s.err, NULL)
                  ELSE out("ok", s.chunk, s.err, s.chunk.pos - 1)
    ELSE out("end", chunk, e, NULL)

RECURSIVE KeyRestManySeparators(_, _, _, _)
\* the second loop of ucl_parse_key without the tests of got_eq and
\* got_semicolon
KeyRestManySeparators(state, chunk, got_sep, e) ==
    IF chunk.pos < End(chunk)
       /\ (ucl_test_character(Cur(chunk), UCL_CHARACTER_WHITESPACE)
           \/ Cur(chunk) \in {"=", ":"})
    THEN KeyRestManySeparators(state, ucl_chunk_skipc(chunk), got_sep, e)
    ELSE [status |-> "ok", chunk |-> chunk, err |-> e]

RECURSIVE KeyRest(_, _, _, _)
\* the second loop of ucl_parse_key; got_sep is got_eq || got_semicolon
KeyRest(state, chunk, got_sep, e) ==
    LET out(st, ch, ee) == [status |-> st, chunk |-> ch, err |-> ee]
        b == Cur(chunk)
    IN
    IF chunk.pos < End(chunk)
    THEN IF ucl_test_character(b, UCL_CHARACTER_WHITESPACE)
         THEN KeyRest(state, ucl_chunk_skipc(chunk), got_sep, e)
         ELSE IF b = "="
         THEN IF ~ got_sep
              THEN KeyRest(state, ucl_chunk_skipc(chunk), TRUE, e)
              ELSE out("fail", chunk,
                       ucl_set_err(chunk, "UCL_ESYNTAX",
                                   "unexpected '=' character", e))
         ELSE IF b = ":"
         THEN IF ~ got_sep
              THEN KeyRest(state, ucl_chunk_skipc(chunk), TRUE, e)
              ELSE out("fail", chunk,
                       ucl_set_err(chunk, "UCL_ESYNTAX",
                                   "unexpected ':' character", e))
         ELSE IF ucl_lex_is_comment(b, ByteAt(chunk, chunk.pos + 1))
         THEN LET s == ucl_skip_comments(state, chunk, e)
              IN  IF ~ s.ok THEN out("fail", s.chunk, s.err)
                  ELSE IF s.chunk = chunk THEN out("hung", chunk, e)
                  ELSE KeyRest(state, s.chunk, got_sep, s.err)
         ELSE out("ok", chunk, e)
    ELSE out("ok", chunk, e)

\* ucl_parse_key with a replacing insert: the value of a key parsed again
\* takes the place of the entry
InsertKeyReplacing(O, top, nobj) ==
    LET container == O[top].hash
        tobj == HASH_FIND(O, container, O[nobj].key)
    IN  IF tobj = NULL
        THEN [O EXCEPT ![top].hash = HASH_ADD_KEYPTR(container, nobj)]
        ELSE [O EXCEPT ![top].hash =
                 [i \in 1..Len(container) |->
                     IF container[i] = tobj THEN nobj ELSE container[i]]]

\* ucl_parse_key without the lookup: a key parsed again is added once more
InsertKeyAgain(O, top, nobj) ==
    [O EXCEPT ![top].hash = HASH_ADD_KEYPTR(O[top].hash, nobj)]

\* ucl_parse_key, lines 689-699: nobj joins the object on top of the stack
InsertKey(O, top, nobj) ==
    LET container == O[top].hash
        tobj == HASH_FIND(O, container, O[nobj].key)
    IN  IF tobj = NULL
        THEN [DL_APPEND(O, tobj, nobj) EXCEPT
                 ![top].hash = HASH_ADD_KEYPTR(container, nobj)]
        ELSE DL_APPEND(O, tobj, nobj)

\* ucl_strlcpy_tolower, or ucl_strlcpy_unsafe
KeyCopy(P, raw) ==
    IF UCL_FLAG_KEY_LOWERCASE \in P.flags
    THEN [i \in 1..Len(raw) |-> tolower(raw[i])]
    ELSE raw

\* ucl_parse_key from line 671: the key runs from scan.c to scan.end and the
\* cursor is at rest.chunk.pos
KeyMake(P, O, chunk, scan, rest) ==
    Result(TRUE, FALSE, [P EXCEPT !.cur_obj = Len(O) + 1],
           InsertKey(Append(O, [ucl_object_new EXCEPT
                                   !.key = KeyCopy(P, Slice(chunk, scan.c,
                                                            scan.end))]),
                     Head(P.stack), Len(O) + 1),
           rest.chunk, rest.err)

\* ucl_parse_key after its second loop
KeyRested(P, O, chunk, scan, rest) ==
    IF rest.status \in {"fail", "hung"}
    THEN Result(FALSE, rest.status = "hung", P, O, rest.chunk, rest.err)
    ELSE IF rest.chunk.pos >= End(chunk)
    THEN Result(FALSE, FALSE, P, O, rest.chunk,
                ucl_set_err(rest.chunk, "UCL_ESYNTAX", "unfinished key",
                            rest.err))
    ELSE KeyMake(P, O, chunk, scan, rest)

\* ucl_parse_key after its first loop
KeyScanned(P, O, chunk, scan) ==
    IF scan.status \in {"fail", "hung"}
    THEN Result(FALSE, scan.status = "hung", P, O, scan.chunk, scan.err)
    ELSE IF scan.chunk.pos >= End(chunk)
    THEN Result(FALSE, FALSE, P, O, scan.chunk,
                ucl_set_err(scan.chunk, "UCL_ESYNTAX", "unfinished key",
                            scan.err))
    ELSE KeyRested(P, O, chunk, scan,
                   KeyRest(P.state, scan.chunk, FALSE, scan.err))

ucl_parse_key(P, O, chunk, e) ==
    IF Cur(chunk) = "."
    THEN Result(TRUE, FALSE,
                [P EXCEPT !.prev_state = P.state, !.state = "MACRO_NAME"],
                O, ucl_chunk_skipc(chunk), e)
    ELSE KeyScanned(P, O, chunk, KeyScan(P.state, chunk, NULL, FALSE, e))

RECURSIVE SkipWhitespaceUnsafeAt(_, _)
\* while (p < chunk->end && the byte at p is WHITESPACE_UNSAFE)
\*     ucl_chunk_skipc (chunk, p);
SkipWhitespaceUnsafeAt(chunk, p) ==
    IF /\ p < End(chunk)
       /\ ucl_test_character(ByteAt(chunk, p), UCL_CHARACTER_WHITESPACE_UNSAFE)
    THEN SkipWhitespaceUnsafeAt(ucl_chunk_skipc_at(chunk, p), p + 1)
    ELSE chunk

SkipWhitespaceUnsafe(chunk) == SkipWhitespaceUnsafeAt(chunk, chunk.pos)

RECURSIVE StrippedSpaces(_, _)
\* the count of whitespace bytes before chunk->pos
StrippedSpaces(chunk, n) ==
    IF ucl_test_character(ByteAt(chunk, chunk.pos - 1 - n),
                          UCL_CHARACTER_WHITESPACE)
    THEN StrippedSpaces(chunk, n + 1)
    ELSE n

RECURSIVE UpperEnd(_, _)
\* while (p < chunk->end && *p >= 'A' && *p <= 'Z') p ++
UpperEnd(chunk, p) ==
    IF p < End(chunk) /\ ByteAt(chunk, p) \in Upper
    THEN UpperEnd(chunk, p + 1)
    ELSE p

\* ucl_parse_value, lines 1001-1025 and 1033-1058: the atom that began at c
\* is a string or a boolean; s is what ucl_parse_string_value made of it
StringParsed(P, O, obj, c, s, bool, str_len) ==
    IF ~ s.ok THEN Result(FALSE, FALSE, P, O, s.chunk, s.err)
    ELSE IF bool.ret
    THEN Result(TRUE, FALSE, [P EXCEPT !.state = "AFTER_VALUE"],
                [O EXCEPT ![obj].type = "UCL_BOOLEAN",
                          ![obj].nv = IF bool.val THEN OneNum ELSE ZeroNum],
                s.chunk, s.err)
    ELSE IF str_len <= 0
    THEN Result(FALSE, FALSE, P, O, s.chunk,
                ucl_set_err(s.chunk, "0", "string value must not be empty",
                            s.err))
    ELSE Result(TRUE, FALSE, [P EXCEPT !.state = "AFTER_VALUE"],
                [O EXCEPT ![obj].type = "UCL_STRING",
                          ![obj].sv = Slice(s.chunk, c, c + str_len - 1)],
                s.chunk, s.err)

StringEnded(P, O, obj, c, s) ==
    StringParsed(P, O, obj, c, s,
                 ucl_maybe_parse_boolean(Slice(s.chunk, c, s.chunk.pos)),
                 s.chunk.pos - c + 1 - StrippedSpaces(s.chunk, 0))

StringAtom(P, O, chunk, obj, c, e) ==
    StringEnded(P, O, obj, c, ucl_parse_string_value(chunk, e))

\* ucl_parse_value, lines 948-980: <<TAG\n ... \nTAG\n
IsMultiline(chunk) ==
    LET p == chunk.pos
    IN  /\ End(chunk) - p > 3
        /\ ByteAt(chunk, p) = "<" /\ ByteAt(chunk, p + 1) = "<"
        /\ ByteAt(chunk, UpperEnd(chunk, p + 2)) = "\n"

MultilineAtom(P, O, chunk, obj, e) ==
    LET c == chunk.pos + 2
        p == UpperEnd(chunk, c)
        body == [chunk EXCEPT !.remain = (@ - (p - c)) % SIZE_MOD,
                              !.pos = p + 1, !.column = 0, !.line = @ + 1]
        ml == ucl_parse_multiline_string(body, Slice(chunk, c, p), p - c)
    IN  IF ml.len = 0
        THEN Result(FALSE, FALSE, P, O, ml.chunk,
                    ucl_set_err(ml.chunk, "UCL_ESYNTAX",
                                "unterminated multiline value", e))
        ELSE Result(TRUE, FALSE, [P EXCEPT !.state = "AFTER_VALUE"],
                    [O EXCEPT ![obj].type = "UCL_STRING",
                              ![obj].sv = Slice(chunk, p + 1, p + ml.len)],
                    ml.chunk, e)

RECURSIVE ValueLoop(_, _, _, _, _)

\* case '"': s is what ucl_lex_json_string made of the bytes after the quote
ValueQuoted(P, O, chunk, obj, s) ==
    IF ~ s.ok THEN Result(FALSE, FALSE, P, O, s.chunk, s.err)
    ELSE Result(TRUE, FALSE, [P EXCEPT !.state = "AFTER_VALUE"],
                [O EXCEPT ![obj].type = "UCL_STRING",
                          ![obj].sv = Slice(chunk, chunk.pos + 1,
                                            s.chunk.pos - 1)],
                s.chunk, s.err)

\* default: whitespace or a comment; s is what ucl_skip_comments left
ValueSkipped(P, O, chunk, obj, e, s) ==
    IF ~ s.ok THEN Result(FALSE, FALSE, P, O, s.chunk, s.err)
    ELSE IF s.chunk = chunk THEN Result(FALSE, TRUE, P, O, chunk, e)
    ELSE ValueLoop(P, O, s.chunk, obj, s.err)

\* default: a byte that can start a number; n is what ucl_lex_number gave
ValueNumber(P, O, chunk, obj, n) ==
    IF n.ret
    THEN Result(TRUE, FALSE,
                [P EXCEPT !.state = "AFTER_VALUE",
                          !.prev_state = n.prev_state],
                [O EXCEPT ![obj].type = n.type, ![obj].nv = n.value],
                n.chunk, n.err)
    ELSE IF n.state = "ERROR"
    THEN Result(FALSE, FALSE,
                [P EXCEPT !.state = n.state, !.prev_state = n.prev_state],
                O, n.chunk, n.err)
    ELSE StringAtom([P EXCEPT !.state = n.state,
                              !.prev_state = n.prev_state],
                    O, n.chunk, obj, chunk.pos, n.err)

\* default:, with p the local pointer: the case '<' falls through to it
\* with p moved past "<<" and the capitals that follow while chunk->pos
\* stays
ValueDefault(P, O, chunk, obj, e, p) ==
    IF \/ ucl_test_character(ByteAt(chunk, p),
                             UCL_CHARACTER_WHITESPACE_UNSAFE)
       \/ ucl_lex_is_comment(ByteAt(chunk, p), ByteAt(chunk, p + 1))
    THEN ValueSkipped(P, O, chunk, obj, e,
                      ucl_skip_comments(P.state,
                                        SkipWhitespaceUnsafeAt(chunk, p), e))
    ELSE IF ucl_test_character(ByteAt(chunk, p),
                               UCL_CHARACTER_VALUE_DIGIT_START)
    THEN ValueNumber(P, O, chunk, obj,
                     ucl_lex_number(P.state, P.prev_state, chunk, e))
    ELSE StringAtom(P, O, chunk, obj, chunk.pos, e)

\* switch (*p), with obj the object the value goes to
ValueSwitch(P, O, chunk, obj, e) ==
    IF Cur(chunk) = "\""
    THEN ValueQuoted(P, O, chunk, obj,
                     ucl_lex_json_string(ucl_chunk_skipc(chunk), e))
    ELSE IF Cur(chunk) = "{"
    THEN Result(TRUE, FALSE,
                [P EXCEPT !.state = "KEY", !.stack = <<obj>> \o @,
                          !.cur_obj = obj],
                [O EXCEPT ![obj].type = "UCL_OBJECT"],
                ucl_chunk_skipc(chunk), e)
    ELSE IF Cur(chunk) = "["
    THEN Result(TRUE, FALSE,
                [P EXCEPT !.state = "VALUE", !.stack = <<P.cur_obj>> \o @],
                [O EXCEPT ![P.cur_obj].type = "UCL_ARRAY"],
                ucl_chunk_skipc(chunk), e)
    ELSE IF Cur(chunk) = "<" /\ IsMultiline(chunk)
    THEN MultilineAtom(P, O, chunk, obj, e)
    ELSE ValueDefault(P, O, chunk, obj, e,
                      IF /\ Cur(chunk) = "<" /\ End(chunk) - chunk.pos > 3
                         /\ ByteAt(chunk, chunk.pos + 1) = "<"
                      THEN UpperEnd(chunk, chunk.pos + 2)
                      ELSE chunk.pos)

\* obj = ucl_object_new (); parser->cur_obj = obj;
\* DL_APPEND (parser->stack->obj->value.ov, parser->cur_obj);
ArrayElement(O, top) ==
    [DL_APPEND(Append(O, ucl_object_new), O[top].head, Len(O) + 1)
        EXCEPT ![top].head = IF @ = NULL THEN Len(O) + 1 ELSE @]

\* the loop of ucl_parse_value writing every value to parser->cur_obj: no
\* object is allocated for an element of an array
ValueLoopReusing(P, O, chunk, obj, e) ==
    IF chunk.pos >= End(chunk) THEN Result(TRUE, FALSE, P, O, chunk, e)
    ELSE ValueSwitch(P, O, chunk, P.cur_obj, e)

\* the loop of ucl_parse_value; obj is NULL until the first iteration
ValueLoop(P, O, chunk, obj, e) ==
    IF chunk.pos >= End(chunk) THEN Result(TRUE, FALSE, P, O, chunk, e)
    ELSE IF obj # NULL THEN ValueSwitch(P, O, chunk, obj, e)
    ELSE IF O[Head(P.stack)].type = "UCL_ARRAY"
    THEN ValueSwitch([P EXCEPT !.cur_obj = Len(O) + 1],
                     ArrayElement(O, Head(P.stack)), chunk, Len(O) + 1, e)
    ELSE ValueSwitch(P, O, chunk, P.cur_obj, e)

ucl_parse_value(P, O, chunk, e) == ValueLoop(P, O, chunk, NULL, e)

RECURSIVE AfterValueLoop(_, _, _, _, _)
\* the loop of ucl_parse_after_value
AfterValueLoop(P, O, chunk, got_sep, e) ==
    LET b == Cur(chunk)
        popped == [P EXCEPT !.stack = Tail(@)]
    IN
    IF chunk.pos >= End(chunk) THEN Result(TRUE, FALSE, P, O, chunk, e)
    ELSE IF ucl_test_character(b, UCL_CHARACTER_WHITESPACE)
    THEN AfterValueLoop(P, O, ucl_chunk_skipc(chunk), got_sep, e)
    ELSE IF ucl_lex_is_comment(b, ByteAt(chunk, chunk.pos + 1))
    THEN LET s == ucl_skip_comments(P.state, chunk, e)
         IN  IF ~ s.ok THEN Result(FALSE, FALSE, P, O, s.chunk, s.err)
             ELSE IF s.chunk = chunk THEN Result(FALSE, TRUE, P, O, chunk, e)
             ELSE AfterValueLoop(P, O, s.chunk, TRUE, s.err)
    ELSE IF ucl_test_character(b, UCL_CHARACTER_VALUE_END)
    THEN IF b \in {"}", "]"}
         THEN IF P.stack = <<>>
              THEN Result(FALSE, FALSE, P, O, chunk,
                          ucl_set_err(chunk, "UCL_ESYNTAX",
                                      "unexpected } detected", e))
              ELSE IF \/ b = "}" /\ O[Head(P.stack)].type = "UCL_OBJECT"
                      \/ b = "]" /\ O[Head(P.stack)].type = "UCL_ARRAY"
              THEN IF popped.stack = <<>>
                   THEN Result(TRUE, FALSE, popped, O, chunk, e)
                   ELSE AfterValueLoop(popped, O, ucl_chunk_skipc(chunk),
                                       TRUE, e)
              ELSE Result(FALSE, FALSE, P, O, chunk,
                          ucl_set_err(chunk, "UCL_ESYNTAX",
                              "unexpected terminating symbol detected", e))
         ELSE AfterValueLoop(P, O, ucl_chunk_skipc(chunk), TRUE, e)
    ELSE IF ~ got_sep
    THEN Result(FALSE, FALSE, P, O, chunk,
                ucl_set_err(chunk, "UCL_ESYNTAX", "delimiter is missing", e))
    ELSE Result(TRUE, FALSE, P, O, chunk, e)

RECURSIVE AfterValueAnyCloser(_, _, _, _, _)
\* the loop of ucl_parse_after_value without the test of the type of the top
\* frame: either closing bracket pops it
AfterValueAnyCloser(P, O, chunk, got_sep, e) ==
    LET b == Cur(chunk)
        popped == [P EXCEPT !.stack = Tail(@)]
    IN
    IF chunk.pos < End(chunk) /\ ucl_test_character(b, UCL_CHARACTER_WHITESPACE)
    THEN AfterValueAnyCloser(P, O, ucl_chunk_skipc(chunk), got_sep, e)
    ELSE IF chunk.pos < End(chunk) /\ b \in {"}", "]"} /\ P.stack # <<>>
    THEN IF popped.stack = <<>>
         THEN Result(TRUE, FALSE, popped, O, chunk, e)
         ELSE AfterValueAnyCloser(popped, O, ucl_chunk_skipc(chunk), TRUE, e)
    ELSE AfterValueLoop(P, O, chunk, got_sep, e)

\* ucl_parse_after_value with that loop
AfterValueUntyped(P, O, chunk, e) == AfterValueAnyCloser(P, O, chunk, FALSE, e)

\* ucl_parse_after_value that reads the closing brackets and pops nothing
AfterValueNoPop(P, O, chunk, e) ==
    [AfterValueLoop(P, O, chunk, FALSE, e) EXCEPT !.parser = P]

ucl_parse_after_value(P, O, chunk, e) == AfterValueLoop(P, O, chunk, FALSE, e)

RECURSIVE SkipUntil(_, _)
\* while (p < chunk->end) { if the byte at p is in stop, break; ucl_chunk_skipc }
SkipUntil(chunk, stop) ==
    IF chunk.pos < End(chunk) /\ Cur(chunk) \notin stop
    THEN SkipUntil(ucl_chunk_skipc(chunk), stop)
    ELSE chunk

RECURSIVE SkipWhile(_, _)
SkipWhile(chunk, skipped) ==
    IF chunk.pos < End(chunk) /\ Cur(chunk) \in skipped
    THEN SkipWhile(ucl_chunk_skipc(chunk), skipped)
    ELSE chunk

\* [ok, chunk, err, macro_start, macro_len]
ucl_parse_macro_value(chunk, e) ==
    LET out(ok, ch, ee, start, len) ==
            [ok |-> ok, err |-> ee, macro_start |-> start, macro_len |-> len,
             chunk |-> IF ok
                       THEN SkipWhile(ch, UCL_CHARACTER_WHITESPACE_UNSAFE
                                          \cup {";"})
                       ELSE ch]
        c == chunk.pos
    IN
    IF Cur(chunk) = "\""
    THEN LET s == ucl_lex_json_string(ucl_chunk_skipc(chunk), e)
         IN  IF ~ s.ok THEN out(FALSE, s.chunk, s.err, NULL, 0)
             ELSE out(TRUE, s.chunk, s.err, c + 1, s.chunk.pos - c - 2)
    ELSE IF Cur(chunk) = "{"
    THEN LET body == SkipWhile(ucl_chunk_skipc(chunk),
                               UCL_CHARACTER_WHITESPACE_UNSAFE)
             close == SkipUntil(body, {"}"})
         IN  out(TRUE, ucl_chunk_skipc(close), e, body.pos,
                 close.pos - body.pos)
    ELSE LET stop == SkipUntil(chunk, UCL_CHARACTER_VALUE_END)
         IN  out(TRUE, stop, e, c, stop.pos - c)

(***************************************************************************)
(* Reference counts and release.  ucl_obj_ref and ucl_obj_unref are        *)
(* declared in include/ucl.h; the count starts at 1 (ucl_object_new), ref  *)
(* adds one, unref takes one and releases the object when none is left.    *)
(***************************************************************************)
ucl_obj_ref(O, obj) == [O EXCEPT ![obj].ref = @ + 1]

RECURSIVE ucl_obj_free_internal(_, _, _)
RECURSIVE FreeArray(_, _)
RECURSIVE FreeHash(_, _)

\* sub = obj->value.ov; while (sub != NULL) { tmp = sub->next; free (sub, false) }
FreeArray(O, sub) ==
    IF sub = NULL THEN O
    ELSE FreeArray(ucl_obj_free_internal(O, sub, FALSE), O[sub].next)

\* HASH_ITER: every entry, with its chain, leaves the table and is released
FreeHash(O, entries) ==
    IF entries = <<>> THEN O
    ELSE FreeHash(ucl_obj_free_internal(O, Head(entries), TRUE), Tail(entries))

\* ucl_obj_free_internal without its loops: the object is freed and what
\* it contains stays allocated
FreeShallow(O, obj, allow_rec) ==
    IF obj = NULL THEN O ELSE [O EXCEPT ![obj].live = FALSE]

ucl_obj_free_internal(O, obj, allow_rec) ==
    IF obj = NULL THEN O
    ELSE LET O1 == IF O[obj].type = "UCL_ARRAY" THEN FreeArray(O, O[obj].head)
                   ELSE IF O[obj].type = "UCL_OBJECT"
                   THEN [FreeHash(O, O[obj].hash) EXCEPT ![obj].hash = <<>>]
                   ELSE O
             tmp == O[obj].next
             O2  == [O1 EXCEPT ![obj].live = FALSE]
         IN  IF allow_rec THEN ucl_obj_free_internal(O2, tmp, TRUE) ELSE O2

ucl_obj_free(O, obj) == ucl_obj_free_internal(O, obj, TRUE)

ucl_obj_unref(O, obj) ==
    LET O1 == [O EXCEPT ![obj].ref = @ - 1]
    IN  IF O1[obj].ref <= 0 THEN ucl_obj_free(O1, obj) ELSE O1

(***************************************************************************)
(* ucl_hash_iterate walks the list of the entries from nodes_head; *iter   *)
(* is the entry to give next, NULL before the first call and nodes_head    *)
(* again after the last entry.  The entries are numbered from 1 in the     *)
(* order of their insertion, which appends at nodes_tail.  With no entry   *)
(* nodes_head is NULL and the first call dereferences it.                  *)
(***************************************************************************)
ucl_hash_iterate(nodes, iter) ==
    LET nodes_head == IF nodes = <<>> THEN NULL ELSE 1
        elt == IF iter = NULL THEN nodes_head ELSE iter
    IN  IF iter # NULL /\ elt = nodes_head
        THEN [data |-> NULL, iter |-> iter, crashed |-> FALSE]
        ELSE IF elt = NULL
        THEN [data |-> NULL, iter |-> iter, crashed |-> TRUE]
        ELSE [data |-> nodes[elt],
              iter |-> IF elt < Len(nodes) THEN elt + 1 ELSE nodes_head,
              crashed |-> FALSE]

RECURSIVE IterateFrom(_, _, _)
\* while ((cur = ucl_hash_iterate (h, &it)) != NULL): the values returned
IterateFrom(nodes, iter, seen) ==
    LET r == ucl_hash_iterate(nodes, iter)
    IN  IF r.data = NULL THEN seen
        ELSE IterateFrom(nodes, r.iter, Append(seen, r.data))

(***************************************************************************)
(* The parser.  chunks lists the chunks from the first pushed to the last: *)
(* LL_PREPEND makes the last one parser->chunks.  stack lists the open     *)
(* containers from the innermost.  fate is what became of the process      *)
(* using the parser: it crashed on a NULL dereference, hangs in a loop     *)
(* that makes no progress, or has freed the parser.                        *)
(***************************************************************************)
UCL_MAX_RECURSION == 16

ucl_parser_new(flags) ==
    [state |-> "INIT", prev_state |-> "INIT", recursion |-> 0,
     flags |-> flags, top_obj |-> NULL, cur_obj |-> NULL, stack |-> <<>>,
     chunks |-> <<>>, fate |-> "live"]

\* chunk = parser->chunks
TopChunk(P) == Len(P.chunks)

\* ucl_parser_add_chunk without the test of parser->recursion
AddChunkNoLimit(P, data, e) ==
    [parser |-> [P EXCEPT !.chunks = Append(@, NewChunk(data)),
                          !.recursion = @ + 1],
     err |-> e, run |-> TRUE, ret |-> TRUE]

\* ucl_parser_add_chunk up to its call of ucl_state_machine: run tells
\* whether the state machine is entered, ret is the result when it is not
ucl_parser_add_chunk(P, data, e) ==
    IF P.state # "ERROR"
    THEN LET P1 == [P EXCEPT !.chunks = Append(@, NewChunk(data)),
                             !.recursion = @ + 1]
         IN  IF P1.recursion > UCL_MAX_RECURSION
             THEN [parser |-> P1,
                   err |-> ucl_create_err(e,
                       [msg |-> "maximum include nesting limit is reached",
                        recursion |-> P1.recursion]),
                   run |-> FALSE, ret |-> FALSE]
             ELSE [parser |-> P1, err |-> e, run |-> TRUE, ret |-> TRUE]
    ELSE [parser |-> P,
          err |-> ucl_create_err(e, [msg |-> "a parser is in an invalid state"]),
          run |-> FALSE, ret |-> FALSE]

(***************************************************************************)
(* The files an include can name.  A name outside the table does not       *)
(* resolve: realpath and stat fail.  A file of Unreadable cannot be        *)
(* opened, and an empty file cannot be mapped (mmap of length 0 fails).    *)
(* The build has no URL fetcher, so ucl_fetch_url fails; os.openssl tells  *)
(* whether it has OpenSSL, that is whether the signature block of          *)
(* ucl_include_file is compiled.                                           *)
(***************************************************************************)
FileSystem ==
    (Bytes("./s") :> Bytes(".include ./s\n")) @@
    (Bytes("./k") :> Bytes("b=2\n")) @@
    (Bytes("./k.sig") :> Bytes("sig")) @@
    (Bytes("./c") :> Bytes("}\nb")) @@
    (Bytes("./e") :> <<>>) @@
    (Bytes("./p") :> Bytes("p=1\n"))

Unreadable == {Bytes("./p")}

\* a process that holds no descriptor and no mapping
NoFiles(openssl) == [openssl |-> openssl, fds |-> 0, maps |-> {}, mmaps |-> 0]

open(S) == [S EXCEPT !.fds = @ + 1]

close(S) == [S EXCEPT !.fds = @ - 1]

\* the mapping made by the n-th successful mmap has id n
mmap(S, filename) ==
    [S EXCEPT !.mmaps = @ + 1,
              !.maps = @ \cup {[id |-> S.mmaps + 1, file |-> filename]}]

munmap(S, id) == [S EXCEPT !.maps = {m \in @ : m.id # id}]

ucl_fetch_url(url, e) ==
    [ok |-> FALSE, err |-> ucl_create_err(e, [msg |-> "URL support is disabled"])]

\* [ok, buf, id, err, os]: id names the mapping that holds buf
ucl_fetch_file(S, filename, e) ==
    LET failed(msg, S1) ==
            [ok |-> FALSE, buf |-> <<>>, id |-> 0, os |-> S1,
             err |-> ucl_create_err(e, [msg |-> msg, filename |-> filename])]
    IN  IF filename \notin DOMAIN FileSystem
        THEN failed("cannot stat file", S)
        ELSE IF filename \in Unreadable
        THEN failed("cannot open file", S)
        ELSE IF FileSystem[filename] = <<>>
        THEN failed("cannot mmap file", close(open(S)))
        ELSE [ok |-> TRUE, buf |-> FileSystem[filename], id |-> S.mmaps + 1,
              os |-> close(mmap(open(S), filename)), err |-> e]

\* ucl_sig_check: the loop over parser->keys; the program registers no key
ucl_sig_check(data, sig, P) == FALSE

\* ucl_include_url: the fetch fails before anything else is done
ucl_include_url(S, data, P, check_signature, e) ==
    [parser |-> P, err |-> ucl_fetch_url(data, e).err, run |-> FALSE,
     ret |-> FALSE, os |-> S, buf |-> 0]

\* ucl_include_file returns false before it calls ucl_parser_add_chunk
IncludeFailed(P, e, S) ==
    [parser |-> P, err |-> e, run |-> FALSE, ret |-> FALSE, os |-> S,
     buf |-> 0]

\* if (check_signature) { ... } of a build with OpenSSL, f being the file
\* and g its signature: false when the include has to be given up
SignatureChecked(P, f, g) ==
    IF ~ g.ok THEN IncludeFailed(P, g.err, g.os)
    ELSE IF ~ ucl_sig_check(f.buf, g.buf, P)
    THEN IncludeFailed(P, ucl_create_err(g.err, [msg |-> "cannot verify file"]),
                       munmap(g.os, g.id))
    ELSE [run |-> TRUE, err |-> g.err, os |-> munmap(g.os, g.id)]

\* res = ucl_parser_add_chunk (parser, buf, buflen, err), which gave a; when
\* the state machine is not entered the rest of ucl_include_file follows
IncludeAdded(a, S, id) ==
    IF a.run
    THEN [parser |-> a.parser, err |-> a.err, run |-> TRUE, ret |-> TRUE,
          os |-> S, buf |-> id]
    ELSE [parser |-> a.parser, err |-> a.err, run |-> FALSE, ret |-> FALSE,
          os |-> munmap(S, id), buf |-> 0]

\* the file has been fetched: f
IncludeFetched(data, P, check_signature, f) ==
    IF ~ f.ok THEN IncludeFailed(P, f.err, f.os)
    ELSE IF check_signature /\ f.os.openssl
    THEN LET s == SignatureChecked(P, f,
                      ucl_fetch_file(f.os, data \o Bytes(".sig"), f.err))
         IN  IF ~ s.run THEN s
             ELSE IncludeAdded(ucl_parser_add_chunk(P, f.buf, s.err), s.os,
                               f.id)
    ELSE IncludeAdded(ucl_parser_add_chunk(P, f.buf, f.err), f.os, f.id)

\* ucl_include_file up to the call of ucl_state_machine inside
\* ucl_parser_add_chunk
ucl_include_file(S, data, P, check_signature, e) ==
    IF data \notin DOMAIN FileSystem
    THEN IncludeFailed(P, ucl_create_err(e, [msg |-> "cannot open file",
                                            filename |-> data]), S)
    ELSE IncludeFetched(data, P, check_signature, ucl_fetch_file(S, data, e))

\* ucl_include_file without "Remove chunk from the stack"
KeepChunk(P, res) == P

\* ucl_include_file after ucl_parser_add_chunk returned res
RemoveChunk(P, res) ==
    IF res /\ P.chunks # <<>>
    THEN [P EXCEPT !.chunks = SubSeq(@, 1, Len(@) - 1)]
    ELSE P

ucl_include_handler(S, data, first, P, e) ==
    IF first \in {"/", "."}
    THEN ucl_include_file(S, data, P, FALSE, e)
    ELSE ucl_include_url(S, data, P, FALSE, e)

ucl_includes_handler(S, data, first, P, e) ==
    IF first \in {"/", "."}
    THEN ucl_include_file(S, data, P, TRUE, e)
    ELSE ucl_include_url(S, data, P, TRUE, e)

\* macro->handler (macro_start, macro_len, macro->ud, err)
Handler(S, macro, data, first, P, e) ==
    IF macro = "include" THEN ucl_include_handler(S, data, first, P, e)
    ELSE ucl_includes_handler(S, data, first, P, e)

\* ucl_parser_get_object without the test of parser->state
GetObjectAnyState(P, O) ==
    IF P.top_obj # NULL
    THEN [obj |-> P.top_obj, objs |-> ucl_obj_ref(O, P.top_obj)]
    ELSE [obj |-> NULL, objs |-> O]

\* ucl_parser_get_object without ucl_obj_ref: the top object is lent
GetObjectBorrowed(P, O) ==
    IF P.state # "INIT" /\ P.state # "ERROR"
    THEN [obj |-> P.top_obj, objs |-> O]
    ELSE [obj |-> NULL, objs |-> O]

\* [obj, objs]: the object returned and the heap
ucl_parser_get_object(P, O) ==
    IF P.state # "INIT" /\ P.state # "ERROR"
    THEN [obj |-> P.top_obj, objs |-> ucl_obj_ref(O, P.top_obj)]
    ELSE [obj |-> NULL, objs |-> O]

\* [parser, objs]
ucl_parser_free(P, O) ==
    [parser |-> [P EXCEPT !.stack = <<>>, !.chunks = <<>>, !.fate = "freed"],
     objs |-> IF P.top_obj # NULL THEN ucl_obj_unref(O, P.top_obj) ELSE O]

(***************************************************************************)
(* ucl_state_machine.  A frame is one activation of it: ci is its chunk,   *)
(* c and macro are its locals (c is not initialised, macro starts NULL),   *)
(* pc tells whether it is in its loop, inside the handler of a macro, or   *)
(* has returned res.  buf is the mapping ucl_include_file holds while the   *)
(* handler runs.  before, at, arg and partial are history: the chunks      *)
(* when the handler was called, where the macro's value starts, the bytes  *)
(* the handler was given, and whether an include that succeeded left bytes *)
(* of its chunk unparsed.                                                  *)
(***************************************************************************)
NewFrame(P) ==
    [ci |-> TopChunk(P), c |-> 0, c_set |-> FALSE, macro |-> "NULL",
     pc |-> "loop", res |-> TRUE, before |-> <<>>, at |-> 0,
     arg |-> <<>>, buf |-> 0, partial |-> FALSE]

Return(f, res) == [f EXCEPT !.pc = "ret", !.res = res]

Top == frames[Len(frames)]

TopData == parser.chunks[Top.ci]

\* while (chunk->pos < chunk->end) { switch (parser->state)
InState(s) ==
    /\ parser.fate = "live"
    /\ frames # <<>>
    /\ Top.pc = "loop"
    /\ TopData.pos < End(TopData)
    /\ parser.state = s

\* what one turn of the loop leaves
Turn(P, O, chunk, e, f) ==
    /\ parser' = [P EXCEPT !.chunks[f.ci] = chunk]
    /\ objs' = O
    /\ err' = e
    /\ frames' = [frames EXCEPT ![Len(frames)] = f]

\* parser->prev_state = parser->state; parser->state = UCL_STATE_ERROR;
\* return false;
Fail(P, O, chunk, e, f) ==
    Turn([P EXCEPT !.prev_state = P.state, !.state = "ERROR"], O, chunk, e,
         Return(f, FALSE))

\* a loop of the C code that does not end
Hang == /\ parser' = [parser EXCEPT !.fate = "hung"]
        /\ UNCHANGED <<objs, err, frames>>

\* a dereference of NULL
Crash == /\ parser' = [parser EXCEPT !.fate = "crashed"]
         /\ UNCHANGED <<objs, err, frames>>

\* case UCL_STATE_INIT without the test for [: the root is always an object
InitTurnObject(s, obj) ==
    IF ~ s.ok
    THEN Fail(parser, objs, s.chunk, s.err, Top)
    ELSE Turn([parser EXCEPT !.state = "KEY", !.cur_obj = obj,
                             !.top_obj = obj, !.stack = <<obj>> \o @],
              Append(objs, [ucl_object_new EXCEPT !.type = "UCL_OBJECT"]),
              IF Cur(s.chunk) = "{" THEN ucl_chunk_skipc(s.chunk)
              ELSE s.chunk,
              s.err, Top)

\* case UCL_STATE_INIT, with s what ucl_skip_comments left and obj the id
\* of the object ucl_object_new gives
InitTurn(s, obj) ==
    IF ~ s.ok
    THEN Fail(parser, objs, s.chunk, s.err, Top)
    ELSE IF Cur(s.chunk) = "["
    THEN Turn([parser EXCEPT !.state = "VALUE", !.cur_obj = obj,
                             !.top_obj = obj, !.stack = <<obj>> \o @],
              Append(objs, [ucl_object_new EXCEPT !.type = "UCL_ARRAY"]),
              ucl_chunk_skipc(s.chunk), s.err, Top)
    ELSE Turn([parser EXCEPT !.state = "KEY", !.cur_obj = obj,
                             !.top_obj = obj, !.stack = <<obj>> \o @],
              Append(objs, [ucl_object_new EXCEPT !.type = "UCL_OBJECT"]),
              IF Cur(s.chunk) = "{" THEN ucl_chunk_skipc(s.chunk)
              ELSE s.chunk,
              s.err, Top)

StepInit ==
    /\ InState("INIT")
    /\ InitTurn(ucl_skip_comments(parser.state, TopData, err), Len(objs) + 1)
    /\ UNCHANGED <<over, os, hist, lx>>

\* case UCL_STATE_KEY after the call of ucl_parse_key, which gave r; nobj
\* is the id of the object it made for a key
KeyTurn(r, nobj) ==
    IF r.hung
    THEN Hang /\ hist' = hist
    ELSE IF ~ r.ok
    THEN Fail(r.parser, r.objs, r.chunk, r.err, Top) /\ hist' = hist
    ELSE IF r.parser.state # "MACRO_NAME"
    THEN /\ Turn([r.parser EXCEPT !.state = "VALUE"], r.objs, r.chunk,
                 r.err, Top)
         /\ hist' = [hist EXCEPT !.keys =
                        Append(@, [obj |-> Head(parser.stack),
                                   key |-> r.objs[nobj].key,
                                   id |-> nobj])]
    ELSE /\ Turn(r.parser, r.objs, r.chunk, r.err,
                 [Top EXCEPT !.c = r.chunk.pos, !.c_set = TRUE])
         /\ hist' = hist

\* case UCL_STATE_KEY with chunk the chunk after "Skip any spaces"
KeySpaced(chunk) ==
    IF Cur(chunk) = "}"
    THEN /\ Turn([parser EXCEPT !.state = "AFTER_VALUE"], objs, chunk, err,
                 Top)
         /\ hist' = hist
    ELSE KeyTurn(ucl_parse_key(parser, objs, chunk, err), Len(objs) + 1)

StepKey ==
    /\ InState("KEY")
    /\ KeySpaced(SkipWhitespaceUnsafe(TopData))
    /\ UNCHANGED <<over, os, lx>>

\* case UCL_STATE_VALUE after the call of ucl_parse_value, which gave r
ValueTurn(r) ==
    IF r.hung THEN Hang
    ELSE IF ~ r.ok THEN Fail(r.parser, r.objs, r.chunk, r.err, Top)
    ELSE Turn(r.parser, r.objs, r.chunk, r.err, Top)

StepValue ==
    /\ InState("VALUE")
    /\ ValueTurn(ucl_parse_value(parser, objs, TopData, err))
    /\ UNCHANGED <<over, os, hist, lx>>

\* case UCL_STATE_AFTER_VALUE after the call of ucl_parse_after_value,
\* which gave r
AfterValueTurn(r) ==
    IF r.hung THEN Hang
    ELSE IF ~ r.ok THEN Fail(r.parser, r.objs, r.chunk, r.err, Top)
    ELSE IF r.parser.stack # <<>>
    THEN Turn([r.parser EXCEPT !.state =
                  IF r.objs[Head(r.parser.stack)].type = "UCL_OBJECT"
                  THEN "KEY" ELSE "VALUE"],
              r.objs, r.chunk, r.err, Top)
    ELSE Turn(r.parser, r.objs, r.chunk, r.err, Return(Top, TRUE))

StepAfterValue ==
    /\ InState("AFTER_VALUE")
    /\ AfterValueTurn(ucl_parse_after_value(parser, objs, TopData, err))
    /\ UNCHANGED <<over, os, hist, lx>>

\* a lookup that finds the include macro under every name
FindMacroAny(name) == "include"

\* HASH_FIND (hh, parser->macroes, c, (p - c), macro)
FindMacro(name) ==
    IF name = Bytes("include") THEN "include"
    ELSE IF name = Bytes("includes") THEN "includes"
    ELSE "NULL"

RECURSIVE MacroSkipSpaces(_, _, _)
\* [ok, chunk, err]: the loop "Now we need to skip all spaces"
MacroSkipSpaces(state, chunk, e) ==
    IF chunk.pos >= End(chunk) THEN [ok |-> TRUE, chunk |-> chunk, err |-> e]
    ELSE IF ~ ucl_test_character(Cur(chunk), UCL_CHARACTER_WHITESPACE_UNSAFE)
    THEN IF ucl_lex_is_comment(Cur(chunk), ByteAt(chunk, chunk.pos + 1))
         THEN ucl_skip_comments(state, chunk, e)
         ELSE [ok |-> TRUE, chunk |-> chunk, err |-> e]
    ELSE MacroSkipSpaces(state, ucl_chunk_skipc(chunk), e)

\* the spaces after the macro name have been skipped: s
MacroSpaced(macro, s) ==
    IF ~ s.ok
    THEN Turn(parser, objs, s.chunk, s.err,
              Return([Top EXCEPT !.macro = macro], FALSE))
    ELSE Turn([parser EXCEPT !.state = "MACRO"], objs, s.chunk, s.err,
              [Top EXCEPT !.macro = macro])

\* the macro name has been looked up and macro is what was found
MacroNamed(macro) ==
    IF macro = "NULL"
    THEN Turn([parser EXCEPT !.state = "ERROR"], objs, TopData,
              ucl_set_err(TopData, "UCL_EMACRO", "unknown macro", err),
              Return(Top, FALSE))
    ELSE MacroSpaced(macro, MacroSkipSpaces(parser.state, TopData, err))

\* what the comparison p - c > 0 and the lookup can give when c was never
\* assigned in this activation
UninitialisedC == {"hang", "crash", "NULL", "include", "includes"}

StepMacroName ==
    /\ InState("MACRO_NAME")
    /\ IF ~ ucl_test_character(Cur(TopData), UCL_CHARACTER_WHITESPACE_UNSAFE)
       THEN Turn(parser, objs, ucl_chunk_skipc(TopData), err, Top)
       ELSE IF ~ Top.c_set
       THEN \E u \in UninitialisedC :
               IF u = "hang" THEN Hang
               ELSE IF u = "crash" THEN Crash
               ELSE MacroNamed(u)
       ELSE IF TopData.pos - Top.c > 0
       THEN MacroNamed(FindMacro(Slice(TopData, Top.c, TopData.pos)))
       ELSE Hang
    /\ UNCHANGED <<over, os, hist, lx>>

\* the place of a macro in the source: the call, then the macros of the
\* enclosing chunks, then its own start
MacroPlace(start) ==
    <<hist.calls>> \o [i \in 1..(Len(frames) - 1) |-> frames[i].at]
        \o <<start>>

\* the handler has been called, up to the call of ucl_state_machine inside
\* it: h; called is the frame of the caller
MacroHandled(h, called) ==
    /\ parser' = h.parser
    /\ objs' = objs
    /\ err' = h.err
    /\ os' = h.os
    /\ frames' = IF h.run
                 THEN Append([frames EXCEPT
                                 ![Len(frames)] = [called EXCEPT !.buf = h.buf]],
                             NewFrame(h.parser))
                 ELSE [frames EXCEPT ![Len(frames)] = Return(called, FALSE)]
    /\ hist' = [hist EXCEPT
                   !.macros = Append(@, MacroPlace(called.at)),
                   !.nested = @ \/ (h.parser.recursion > UCL_MAX_RECURSION)]

\* parser->state = parser->prev_state; macro->handler (macro_start,
\* macro_len, macro->ud, err), with P the parser when it is called
MacroCall(r, P) ==
    MacroHandled(Handler(os, Top.macro,
                         Slice(r.chunk, r.macro_start,
                               r.macro_start + r.macro_len),
                         ByteAt(r.chunk, r.macro_start), P, r.err),
                 [Top EXCEPT !.pc = "handler", !.before = P.chunks,
                             !.at = r.macro_start,
                             !.arg = Slice(r.chunk, r.macro_start,
                                           r.macro_start + r.macro_len)])

\* case UCL_STATE_MACRO without parser->state = parser->prev_state
MacroTurnKeepState(r) ==
    IF ~ r.ok
    THEN Fail(parser, objs, r.chunk, r.err, Top) /\ hist' = hist /\ os' = os
    ELSE IF Top.macro = "NULL"
    THEN Crash /\ hist' = hist /\ os' = os
    ELSE MacroCall(r, [parser EXCEPT !.chunks[Top.ci] = r.chunk])

\* case UCL_STATE_MACRO after the call of ucl_parse_macro_value, which gave r
MacroTurn(r) ==
    IF ~ r.ok
    THEN Fail(parser, objs, r.chunk, r.err, Top) /\ hist' = hist /\ os' = os
    ELSE IF Top.macro = "NULL"
    THEN Crash /\ hist' = hist /\ os' = os
    ELSE MacroCall(r, [parser EXCEPT !.state = parser.prev_state,
                                     !.chunks[Top.ci] = r.chunk])

StepMacro ==
    /\ InState("MACRO")
    /\ MacroTurn(ucl_parse_macro_value(TopData, err))
    /\ UNCHANGED <<over, lx>>

\* an activation is over: it returned, or its loop met the end of the chunk
Done(f) ==
    \/ f.pc = "ret"
    \/ f.pc = "loop" /\ parser.chunks[f.ci].pos >= End(parser.chunks[f.ci])

Res(f) == IF f.pc = "ret" THEN f.res ELSE TRUE

\* ucl_parser_add_chunk returns into ucl_include_file, which returns into
\* the handler's caller
ReturnToInclude ==
    /\ parser.fate = "live"
    /\ Len(frames) >= 2
    /\ Done(Top)
    /\ LET res == Res(Top)
           caller == frames[Len(frames) - 1]
           left == TopData.pos < End(TopData)
       IN  /\ parser' = RemoveChunk(parser, res)
           /\ frames' = Append(SubSeq(frames, 1, Len(frames) - 2),
                               IF res
                               THEN [caller EXCEPT !.pc = "loop",
                                                   !.partial = @ \/ left]
                               ELSE Return(caller, FALSE))
           \* munmap (buf, buflen)
           /\ os' = munmap(os, caller.buf)
    /\ UNCHANGED <<objs, err, over, hist, lx>>

ReturnToCaller ==
    /\ parser.fate = "live"
    /\ Len(frames) = 1
    /\ Done(Top)
    /\ frames' = <<>>
    /\ hist' = [hist EXCEPT !.last = IF Res(Top) THEN "true" ELSE "false",
                            !.failed = @ \/ ~ Res(Top)]
    /\ UNCHANGED <<parser, objs, err, over, os, lx>>

(***************************************************************************)
(* The program that uses the parser: it adds chunks one after another,     *)
(* each with an empty error, may take the top object, frees the parser     *)
(* and releases the references it took.                                    *)
(***************************************************************************)
MaxCalls == 2

MaxRefs == 1

TopInputs ==
    {Bytes("a=1;b=2;a=3\n"), Bytes("A=1\n"), Bytes("o {a=[1,2]}\n"),
     Bytes(".include ./k\n"), Bytes(".include ./s\n"),
     Bytes(".include ./m\n"), Bytes(".include ./c\n,\n"),
     Bytes(".includes h\n"), Bytes(".x y\n"), Bytes(".include"),
     Bytes(".include /*\n"), Bytes(".include \"./k\";\n"),
     Bytes(".include { ./k}\n"), Bytes("{a=[1]}x\n"),
     Bytes(".includes ./k\n"), Bytes(".includes ./c\n"),
     Bytes(".include ./e\n"), Bytes(".include ./p\n"),
     Bytes("a=on;b=x;c=\"s\"\n"), Bytes("[true,1.5,2s]\n"),
     Bytes("{a=1]\n"), Bytes("[1}\n")}

\* the chunks the program adds after the first one
LaterInputs ==
    {Bytes("b=2\n"), Bytes(".include ./k\n"), Bytes(" ./k\n"), Bytes("}\n")}

NoLex == [fn |-> "none"]

Init ==
    /\ \E flags \in {{}, {UCL_FLAG_KEY_LOWERCASE}} :
          parser = ucl_parser_new(flags)
    /\ objs = <<>>
    /\ frames = <<>>
    /\ err = NoErr
    /\ over \in OverBytes
    /\ \E openssl \in BOOLEAN : os = NoFiles(openssl)
    /\ hist = [calls |-> 0, last |-> "none", failed |-> FALSE,
               nested |-> FALSE, held |-> 0, got |-> NULL, keys |-> <<>>,
               macros |-> <<>>]
    /\ lx = NoLex

AddChunk ==
    /\ parser.fate = "live"
    /\ frames = <<>>
    /\ hist.calls < MaxCalls
    /\ \E data \in (IF hist.calls = 0 THEN TopInputs ELSE LaterInputs) :
          LET a == ucl_parser_add_chunk(parser, data, NoErr)
          IN  /\ parser' = a.parser
              /\ err' = a.err
              /\ frames' = IF a.run THEN <<NewFrame(a.parser)>> ELSE <<>>
              /\ hist' = [hist EXCEPT
                            !.calls = @ + 1,
                            !.last = IF a.run THEN "running" ELSE "false",
                            !.failed = @ \/ ~ a.run,
                            !.nested = @ \/ (a.parser.recursion
                                                > UCL_MAX_RECURSION)]
    /\ UNCHANGED <<objs, over, os, lx>>

GetObject ==
    /\ parser.fate = "live"
    /\ frames = <<>>
    /\ hist.held < MaxRefs
    /\ LET g == ucl_parser_get_object(parser, objs)
       IN  /\ objs' = g.objs
           /\ hist' = [hist EXCEPT !.held = IF g.obj # NULL THEN @ + 1 ELSE @,
                                   !.got = g.obj]
    /\ UNCHANGED <<parser, frames, err, over, os, lx>>

ParserFree ==
    /\ parser.fate = "live"
    /\ frames = <<>>
    /\ LET r == ucl_parser_free(parser, objs)
       IN  parser' = r.parser /\ objs' = r.objs
    /\ UNCHANGED <<frames, err, over, os, hist, lx>>

\* the program gives back a reference it took with ucl_parser_get_object
Unref ==
    /\ parser.fate \in {"live", "freed"}
    /\ frames = <<>>
    /\ hist.held > 0
    /\ objs' = ucl_obj_unref(objs, parser.top_obj)
    /\ hist' = [hist EXCEPT !.held = @ - 1]
    /\ UNCHANGED <<parser, frames, err, over, os, lx>>

Next ==
    \/ AddChunk
    \/ StepInit
    \/ StepKey
    \/ StepValue
    \/ StepAfterValue
    \/ StepMacroName
    \/ StepMacro
    \/ ReturnToInclude
    \/ ReturnToCaller
    \/ GetObject
    \/ ParserFree
    \/ Unref

Spec == Init /\ [][Next]_vars

(***************************************************************************)
(* Harness: ucl_skip_comments applied to every short buffer.               *)
(***************************************************************************)
NoResult == [ok |-> "none"]

CommentAlphabet == {"/", "*", "a", "#", "\n"}

Idle ==
    /\ parser = [state |-> "INIT"]
    /\ objs = <<>>
    /\ frames = <<>>
    /\ err = NoErr
    /\ hist = <<>>
    /\ os = NoFiles(FALSE)

InitComment ==
    /\ Idle
    /\ over \in OverBytes
    /\ \E data \in SeqsUpTo(CommentAlphabet, MaxCommentLen),
          st \in {"INIT", "KEY"} :
            lx = [fn |-> "ucl_skip_comments", state |-> st,
                  chunk |-> NewChunk(data), out |-> NoResult]

ApplySkipComments ==
    /\ lx.fn = "ucl_skip_comments"
    /\ lx.out = NoResult
    /\ lx' = [lx EXCEPT !.out = ucl_skip_comments(lx.state, lx.chunk, NoErr)]
    /\ UNCHANGED <<parser, objs, frames, err, over, os, hist>>

NextComment == ApplySkipComments

SpecComment == InitComment /\ [][NextComment]_vars

(***************************************************************************)
(* Harness: ucl_lex_number applied to short atoms.  An atom is a prefix    *)
(* over the bytes the digit loop looks at, followed by one of the tails    *)
(* the suffix switch tells apart.                                          *)
(***************************************************************************)
NumAlphabet == {"1", "-", ".", "e"}

NumTails ==
    {Bytes(t) : t \in {"", ";", "x;", "ms;", "ks;", "mb;", "m;", "k", "min;",
                       "mx;", "s;", "sx;", "h;", "y", "w;", "d]", "\n9", "ms", "min",
                       "e+5;", "E5e", "e999;", "e-999;",
                       "9223372036854775807;", "9223372036854775808;"}}

NumInputs ==
    {p \o t : p \in SeqsUpTo(NumAlphabet, MaxNumLen) \ {<<>>}, t \in NumTails}

InitNumber ==
    /\ Idle
    /\ over \in OverBytes
    /\ \E data \in NumInputs :
          /\ ucl_test_character(data[1], UCL_CHARACTER_VALUE_DIGIT_START)
          /\ lx = [fn |-> "ucl_lex_number", state |-> "VALUE",
                   chunk |-> NewChunk(data), out |-> NoResult]

ApplyLexNumber ==
    /\ lx.fn = "ucl_lex_number"
    /\ lx.out = NoResult
    /\ lx' = [lx EXCEPT !.out = ucl_lex_number(lx.state, "KEY", lx.chunk, NoErr)]
    /\ UNCHANGED <<parser, objs, frames, err, over, os, hist>>

NextNumber == ApplyLexNumber

SpecNumber == InitNumber /\ [][NextNumber]_vars

(***************************************************************************)
(* Harness: the first turn of the state machine on a fresh parser, for     *)
(* every chunk that is a short sequence of comments, brackets, a key byte  *)
(* and a space.                                                            *)
(***************************************************************************)
MaxRootTokens == 3

CommentTokens == {Bytes("#c\n"), Bytes("/*c*/")}

RootTokens == CommentTokens \cup {Bytes("["), Bytes("{"), Bytes("a"), Bytes(" ")}

RECURSIVE Flatten(_)
Flatten(toks) == IF toks = <<>> THEN <<>> ELSE Head(toks) \o Flatten(Tail(toks))

InitRoot ==
    /\ over \in OverBytes
    /\ \E toks \in SeqsUpTo(RootTokens, MaxRootTokens) \ {<<>>} :
          /\ parser = ucl_parser_add_chunk(ucl_parser_new({}), Flatten(toks),
                                           NoErr).parser
          /\ lx = [fn |-> "root", tokens |-> toks]
    /\ frames = <<NewFrame(parser)>>
    /\ objs = <<>>
    /\ err = NoErr
    /\ os = NoFiles(FALSE)
    /\ hist = [calls |-> 1, last |-> "running", failed |-> FALSE,
               nested |-> FALSE, held |-> 0, got |-> NULL, keys |-> <<>>,
               macros |-> <<>>]

NextRoot == StepInit

SpecRoot == InitRoot /\ [][NextRoot]_vars

(***************************************************************************)
(* Harness: tests/fuzzers/ucl_add_string_fuzzer.c.  A fresh parser made    *)
(* with ucl_parser_new (0) is fed one NUL-terminated string, and freed     *)
(* when it reports no error.  The strings are the chunks of the program    *)
(* above and every sequence of up to MaxFuzzTokens tokens.                 *)
(***************************************************************************)
MaxFuzzTokens == 3

FuzzTokens ==
    {Bytes("a"), Bytes("="), Bytes(" "), Bytes("."), Bytes("\n"), Bytes("{"),
     Bytes("}"), Bytes(";"), Bytes("1"), Bytes("\""), Bytes("#"), Bytes("[")}

FuzzInputs ==
    TopInputs \cup {Flatten(toks) : toks \in SeqsUpTo(FuzzTokens, MaxFuzzTokens)}

RECURSIVE strlen(_)
\* the bytes before the first NUL of ss, which ends with one
strlen(ss) == IF Head(ss) = NUL THEN 0 ELSE 1 + strlen(Tail(ss))

\* ucl_parser_add_string (parser, data, len): len 0 stands for strlen (data)
ucl_parser_add_string(P, data, len, e) ==
    ucl_parser_add_chunk(P, SubSeq(data, 1, IF len = 0 THEN strlen(data) ELSE len), e)

\* ucl_parser_get_error (parser) != NULL
ucl_parser_get_error(e) == e # NoErr

InitFuzz ==
    /\ parser = ucl_parser_new({})
    /\ objs = <<>>
    /\ frames = <<>>
    /\ err = NoErr
    /\ over = NUL
    /\ \E openssl \in BOOLEAN : os = NoFiles(openssl)
    /\ hist = [calls |-> 0, last |-> "none", failed |-> FALSE,
               nested |-> FALSE, held |-> 0, got |-> NULL, keys |-> <<>>,
               macros |-> <<>>]
    /\ lx = [fn |-> "LLVMFuzzerTestOneInput"]

\* ss = malloc (size + 1); ss[size] = 0; ucl_parser_add_string (parser, ss, 0)
FuzzAddString ==
    /\ parser.fate = "live"
    /\ frames = <<>>
    /\ hist.calls = 0
    /\ \E data \in FuzzInputs :
          LET a == ucl_parser_add_string(parser, Append(data, NUL), 0, NoErr)
          IN  /\ parser' = a.parser
              /\ err' = a.err
              /\ frames' = IF a.run THEN <<NewFrame(a.parser)>> ELSE <<>>
              /\ hist' = [hist EXCEPT
                            !.calls = @ + 1,
                            !.last = IF a.run THEN "running" ELSE "false",
                            !.failed = @ \/ ~ a.run]
    /\ UNCHANGED <<objs, over, os, lx>>

\* if (ucl_parser_get_error (parser) != NULL) return 0; ucl_parser_free (parser)
FuzzFree ==
    /\ parser.fate = "live"
    /\ frames = <<>>
    /\ hist.calls = 1
    /\ ~ ucl_parser_get_error(err)
    /\ LET r == ucl_parser_free(parser, objs)
       IN  parser' = r.parser /\ objs' = r.objs
    /\ UNCHANGED <<frames, err, over, os, hist, lx>>

NextFuzz ==
    \/ FuzzAddString
    \/ StepInit
    \/ StepKey
    \/ StepValue
    \/ StepAfterValue
    \/ StepMacroName
    \/ StepMacro
    \/ ReturnToInclude
    \/ ReturnToCaller
    \/ FuzzFree

SpecFuzz == InitFuzz /\ [][NextFuzz]_vars

(***************************************************************************)
(* Harness: ucl_parse_key alone, in the state KEY with the root object on  *)
(* the stack, on a key followed by up to MaxSeparators bytes out of space, *)
(* = and :, and then by the start of a value or by nothing.                *)
(***************************************************************************)
MaxSeparators == 3

KeySeparators == {" ", "=", ":"}

KeyTails == {Bytes("1;"), Bytes("\"v\""), Bytes("{"), Bytes("#c\n1"), <<>>}

\* the parser after case UCL_STATE_INIT has made the root object
KeyParser ==
    [ucl_parser_new({}) EXCEPT !.state = "KEY", !.cur_obj = 1, !.top_obj = 1,
                               !.stack = <<1>>]

KeyObjects == <<[ucl_object_new EXCEPT !.type = "UCL_OBJECT"]>>

InitKey ==
    /\ Idle
    /\ over \in OverBytes
    /\ \E seps \in SeqsUpTo(KeySeparators, MaxSeparators), tail \in KeyTails :
          lx = [fn |-> "ucl_parse_key", seps |-> seps, tail |-> tail,
                chunk |-> NewChunk(Bytes("a") \o seps \o tail),
                out |-> NoResult]

ApplyParseKey ==
    /\ lx.fn = "ucl_parse_key"
    /\ lx.out = NoResult
    /\ lx' = [lx EXCEPT !.out = ucl_parse_key(KeyParser, KeyObjects, lx.chunk, NoErr)]
    /\ UNCHANGED <<parser, objs, frames, err, over, os, hist>>

NextKey == ApplyParseKey

SpecKey == InitKey /\ [][NextKey]_vars

(***************************************************************************)
(* The schema validator (ucl_schema.c).  A value is                        *)
(*   [type, sv, iv, elts]:                                                 *)
(* sv is the text of a string, iv the number of an integer, the truth of a *)
(* boolean (1 or 0) or the len of a string, elts the entries [key, obj] of *)
(* an object or of an array in the order of their insertion (the key of an *)
(* array element is empty).  NoValue is the NULL pointer.  The numbers of  *)
(* the model are integers, which a double holds exactly.                   *)
(*                                                                         *)
(* The error record is [code, msg, obj], msg being the format and its      *)
(* arguments; NoRecord is the NULL a caller may pass for it.               *)
(*                                                                         *)
(* ucl_schema_validate declares `bool ret;` and gives it no value: what    *)
(* the oneOf loop or the test after an empty anyOf loop reads is then      *)
(* whatever the stack held.  The operator therefore gives the SET of the   *)
(* outcomes [ret, crash, err] of a call; crash marks the write through a   *)
(* NULL err.  The schemas of the model carry no enum and its candidates    *)
(* are scalars, so that ucl_schema_validate_enum, _object and _array are   *)
(* not entered.                                                            *)
(***************************************************************************)
NoValue == [type |-> "none", sv |-> "", iv |-> 0, elts |-> <<>>]

IntValue(n) == [type |-> "UCL_INT", sv |-> "", iv |-> n, elts |-> <<>>]

StringValue(s, len) == [type |-> "UCL_STRING", sv |-> s, iv |-> len, elts |-> <<>>]

TimeValue(n) == [type |-> "UCL_TIME", sv |-> "", iv |-> n, elts |-> <<>>]

BoolValue(b) ==
    [type |-> "UCL_BOOLEAN", sv |-> "", iv |-> IF b THEN 1 ELSE 0, elts |-> <<>>]

ArrayValue(vals) ==
    [type |-> "UCL_ARRAY", sv |-> "", iv |-> 0,
     elts |-> [i \in DOMAIN vals |-> [key |-> "", obj |-> vals[i]]]]

ObjectValue(entries) ==
    [type |-> "UCL_OBJECT", sv |-> "", iv |-> 0, elts |-> entries]

Entry(key, obj) == [key |-> key, obj |-> obj]

ucl_object_find_key(obj, key) ==
    IF obj.type # "UCL_OBJECT" THEN NoValue
    ELSE IF \A i \in DOMAIN obj.elts : obj.elts[i].key # key THEN NoValue
    ELSE obj.elts[CHOOSE i \in DOMAIN obj.elts :
                     /\ obj.elts[i].key = key
                     /\ \A j \in 1..(i - 1) : obj.elts[j].key # key].obj

NoRecord == [code |-> "none", msg |-> <<>>, obj |-> NoValue]

ZeroRecord == [code |-> "UCL_SCHEMA_OK", msg |-> <<>>, obj |-> NoValue]

ucl_schema_create_error(e, code, obj, msg) ==
    IF e = NoRecord THEN e
    ELSE [code |-> code, msg |-> msg, obj |-> obj]

ucl_string_to_type(input) ==
    IF input = "object" THEN [ok |-> TRUE, res |-> "UCL_OBJECT"]
    ELSE IF input = "array" THEN [ok |-> TRUE, res |-> "UCL_ARRAY"]
    ELSE IF input = "integer" THEN [ok |-> TRUE, res |-> "UCL_INT"]
    ELSE IF input = "number" THEN [ok |-> TRUE, res |-> "UCL_FLOAT"]
    ELSE IF input = "string" THEN [ok |-> TRUE, res |-> "UCL_STRING"]
    ELSE IF input = "boolean" THEN [ok |-> TRUE, res |-> "UCL_BOOLEAN"]
    ELSE IF input = "null" THEN [ok |-> TRUE, res |-> "UCL_NULL"]
    ELSE [ok |-> FALSE, res |-> "none"]

ucl_object_type_to_string(type) ==
    IF type = "UCL_OBJECT" THEN "object"
    ELSE IF type = "UCL_ARRAY" THEN "array"
    ELSE IF type = "UCL_INT" THEN "integer"
    ELSE IF type \in {"UCL_FLOAT", "UCL_TIME"} THEN "number"
    ELSE IF type = "UCL_STRING" THEN "string"
    ELSE IF type = "UCL_BOOLEAN" THEN "boolean"
    ELSE IF type \in {"UCL_NULL", "UCL_USERDATA"} THEN "null"
    ELSE "unknown"

Checked(ret, e) == [ret |-> ret, err |-> e]

(* The type named by a string of the schema against the type of obj. *)
TypeNamed(type, obj, e, t) ==
    IF ~ t.ok
    THEN Checked(FALSE,
                 ucl_schema_create_error(e, "UCL_SCHEMA_INVALID_SCHEMA", type,
                     <<"Type attribute is invalid in schema">>))
    ELSE IF obj.type = t.res THEN Checked(TRUE, e)
    ELSE IF obj.type = "UCL_TIME" /\ t.res = "UCL_FLOAT" THEN Checked(TRUE, e)
    ELSE IF obj.type = "UCL_INT" /\ t.res = "UCL_FLOAT" THEN Checked(TRUE, e)
    ELSE Checked(FALSE,
                 ucl_schema_create_error(e, "UCL_SCHEMA_TYPE_MISMATCH", obj,
                     <<"Invalid type of %s, expected %s",
                       ucl_object_type_to_string(obj.type),
                       ucl_object_type_to_string(t.res)>>))

RECURSIVE ucl_schema_type_is_allowed(_, _, _)
RECURSIVE TypeInArray(_, _, _)
TypeInArrayTurn(elts, obj, r) ==
    IF r.ret THEN r ELSE TypeInArray(Tail(elts), obj, r.err)

TypeInArray(elts, obj, e) ==
    IF elts = <<>> THEN Checked(FALSE, e)
    ELSE TypeInArrayTurn(elts, obj,
             ucl_schema_type_is_allowed(Head(elts).obj, obj, e))

ucl_schema_type_is_allowed(type, obj, e) ==
    IF type = NoValue THEN Checked(TRUE, e)
    ELSE IF type.type = "UCL_ARRAY" THEN TypeInArray(type.elts, obj, e)
    ELSE IF type.type = "UCL_STRING"
    THEN TypeNamed(type, obj, e, ucl_string_to_type(type.sv))
    ELSE Checked(FALSE, e)

(* The loop of ucl_schema_validate_number over the keys of the schema;    *)
(* exclusive is the local the maximum and the minimum branches share.     *)
ExclusiveFlag(schema, key, exclusive) ==
    IF ucl_object_find_key(schema, key).type = "UCL_BOOLEAN"
    THEN ucl_object_find_key(schema, key).iv = 1
    ELSE exclusive

RECURSIVE NumberLoop(_, _, _, _, _)
NumberLoop(schema, elts, obj, exclusive, e) ==
    IF elts = <<>> THEN Checked(TRUE, e)
    ELSE IF Head(elts).obj.type = "UCL_INT" /\ Head(elts).key = "multipleOf"
    THEN IF Head(elts).obj.iv <= 0
         THEN Checked(FALSE,
                  ucl_schema_create_error(e, "UCL_SCHEMA_INVALID_SCHEMA",
                      Head(elts).obj, <<"multipleOf must be greater than zero">>))
         ELSE IF obj.iv % Head(elts).obj.iv # 0
         THEN Checked(FALSE,
                  ucl_schema_create_error(e, "UCL_SCHEMA_CONSTRAINT", obj,
                      <<"number %.4f is not multiple of %.4f, remainder is %.7f">>))
         ELSE NumberLoop(schema, Tail(elts), obj, exclusive, e)
    ELSE IF Head(elts).obj.type = "UCL_INT" /\ Head(elts).key = "maximum"
    THEN IF \/ obj.iv > Head(elts).obj.iv
            \/ /\ ExclusiveFlag(schema, "exclusiveMaximum", exclusive)
               /\ obj.iv >= Head(elts).obj.iv
         THEN Checked(FALSE,
                  ucl_schema_create_error(e, "UCL_SCHEMA_CONSTRAINT", obj,
                      <<"number is too big: %.3f, maximum is: %.3f">>))
         ELSE NumberLoop(schema, Tail(elts), obj,
                         ExclusiveFlag(schema, "exclusiveMaximum", exclusive), e)
    ELSE IF Head(elts).obj.type = "UCL_INT" /\ Head(elts).key = "minimum"
    THEN IF \/ obj.iv < Head(elts).obj.iv
            \/ /\ ExclusiveFlag(schema, "exclusiveMinimum", exclusive)
               /\ obj.iv <= Head(elts).obj.iv
         THEN Checked(FALSE,
                  ucl_schema_create_error(e, "UCL_SCHEMA_CONSTRAINT", obj,
                      <<"number is too small: %.3f, minimum is: %.3f">>))
         ELSE NumberLoop(schema, Tail(elts), obj,
                         ExclusiveFlag(schema, "exclusiveMinimum", exclusive), e)
    ELSE NumberLoop(schema, Tail(elts), obj, exclusive, e)

ucl_schema_validate_number(schema, obj, e) ==
    NumberLoop(schema, schema.elts, obj, FALSE, e)

RECURSIVE StringLoop(_, _, _)
StringLoop(elts, obj, e) ==
    IF elts = <<>> THEN Checked(TRUE, e)
    ELSE IF Head(elts).obj.type = "UCL_INT" /\ Head(elts).key = "maxLength"
    THEN IF obj.iv > Head(elts).obj.iv
         THEN Checked(FALSE,
                  ucl_schema_create_error(e, "UCL_SCHEMA_CONSTRAINT", obj,
                      <<"string is too big: %.3f, maximum is: %.3f">>))
         ELSE StringLoop(Tail(elts), obj, e)
    ELSE IF Head(elts).obj.type = "UCL_INT" /\ Head(elts).key = "minLength"
    THEN IF obj.iv < Head(elts).obj.iv
         THEN Checked(FALSE,
                  ucl_schema_create_error(e, "UCL_SCHEMA_CONSTRAINT", obj,
                      <<"string is too short: %.3f, minimum is: %.3f">>))
         ELSE StringLoop(Tail(elts), obj, e)
    ELSE StringLoop(Tail(elts), obj, e)

ucl_schema_validate_string(schema, obj, e) ==
    StringLoop(schema.elts, obj, e)

(* What a call of ucl_schema_validate comes to, and the locals of a call   *)
(* on its way: [ret, err, pc] with pc "run" until the call has returned    *)
(* ("true", "false"), has left a loop ("break") or has crashed.            *)
Returned(ret, e) == [ret |-> ret, crash |-> FALSE, err |-> e]

Uninitialised(e) == {[ret |-> b, err |-> e, pc |-> "run"] : b \in BOOLEAN}

Outcome(L) == [ret |-> L.pc = "true", crash |-> L.pc = "crash", err |-> L.err]

IsArrayKey(schema, key) == ucl_object_find_key(schema, key).type = "UCL_ARRAY"

(* err->code = UCL_SCHEMA_OK, lines 690-693 and 719-722. *)
ResetError(L) ==
    IF L.err = NoRecord THEN [L EXCEPT !.pc = "crash"]
    ELSE [L EXCEPT !.err.code = "UCL_SCHEMA_OK", !.pc = "run"]

RECURSIVE ucl_schema_validate(_, _, _)

AllOfTurn(L, r) ==
    IF r.crash THEN [L EXCEPT !.err = r.err, !.pc = "crash"]
    ELSE IF ~ r.ret THEN [ret |-> FALSE, err |-> r.err, pc |-> "false"]
    ELSE [ret |-> TRUE, err |-> r.err, pc |-> "run"]

RECURSIVE AllOfLoop(_, _, _)
AllOfLoop(elts, obj, L) ==
    IF L.pc # "run" \/ elts = <<>> THEN {L}
    ELSE UNION {AllOfLoop(Tail(elts), obj, AllOfTurn(L, r)) :
                    r \in ucl_schema_validate(Head(elts).obj, obj, L.err)}

ValidateAllOf(schema, obj, L) ==
    IF L.pc = "run" /\ IsArrayKey(schema, "allOf")
    THEN AllOfLoop(ucl_object_find_key(schema, "allOf").elts, obj, L)
    ELSE {L}

AnyOfTurn(L, r) ==
    IF r.crash THEN [L EXCEPT !.err = r.err, !.pc = "crash"]
    ELSE [ret |-> r.ret, err |-> r.err, pc |-> IF r.ret THEN "break" ELSE "run"]

RECURSIVE AnyOfLoop(_, _, _)
AnyOfLoop(elts, obj, L) ==
    IF L.pc # "run" \/ elts = <<>> THEN {L}
    ELSE UNION {AnyOfLoop(Tail(elts), obj, AnyOfTurn(L, r)) :
                    r \in ucl_schema_validate(Head(elts).obj, obj, L.err)}

AnyOfEnd(L) ==
    IF L.pc = "crash" THEN L
    ELSE IF ~ L.ret THEN [L EXCEPT !.pc = "false"]
    ELSE ResetError(L)

ValidateAnyOf(schema, obj, L) ==
    IF L.pc = "run" /\ IsArrayKey(schema, "anyOf")
    THEN {AnyOfEnd(M) :
             M \in AnyOfLoop(ucl_object_find_key(schema, "anyOf").elts, obj, L)}
    ELSE {L}

OneOfTurn(L, r) ==
    IF r.crash THEN [L EXCEPT !.err = r.err, !.pc = "crash"]
    ELSE IF ~ L.ret THEN [ret |-> r.ret, err |-> r.err, pc |-> "run"]
    ELSE IF r.ret THEN [ret |-> FALSE, err |-> r.err, pc |-> "break"]
    ELSE [L EXCEPT !.err = r.err]

RECURSIVE OneOfLoop(_, _, _)
OneOfLoop(elts, obj, L) ==
    IF L.pc # "run" \/ elts = <<>> THEN {L}
    ELSE UNION {OneOfLoop(Tail(elts), obj, OneOfTurn(L, r)) :
                    r \in ucl_schema_validate(Head(elts).obj, obj, L.err)}

OneOfEnd(L) ==
    IF L.pc = "crash" THEN L
    ELSE IF ~ L.ret THEN [L EXCEPT !.pc = "false"]
    ELSE [L EXCEPT !.pc = "run"]

ValidateOneOf(schema, obj, L) ==
    IF L.pc = "run" /\ IsArrayKey(schema, "oneOf")
    THEN {OneOfEnd(M) :
             M \in OneOfLoop(ucl_object_find_key(schema, "oneOf").elts, obj, L)}
    ELSE {L}

NotTurn(L, r) ==
    IF r.crash THEN [L EXCEPT !.err = r.err, !.pc = "crash"]
    ELSE IF r.ret THEN [L EXCEPT !.err = r.err, !.pc = "false"]
    ELSE ResetError([L EXCEPT !.err = r.err])

ValidateNot(schema, obj, L) ==
    IF L.pc = "run" /\ ucl_object_find_key(schema, "not").type = "UCL_OBJECT"
    THEN {NotTurn(L, r) :
             r \in ucl_schema_validate(ucl_object_find_key(schema, "not"),
                                       obj, L.err)}
    ELSE {L}

(* The switch on obj->type, lines 730-749. *)
ValidateByType(L, r) ==
    [L EXCEPT !.err = r.err, !.pc = IF r.ret THEN "true" ELSE "false"]

ValidateTyped(schema, obj, L, r) ==
    IF ~ r.ret THEN [L EXCEPT !.err = r.err, !.pc = "false"]
    ELSE IF obj.type \in {"UCL_INT", "UCL_FLOAT"}
    THEN ValidateByType(L, ucl_schema_validate_number(schema, obj, r.err))
    ELSE IF obj.type = "UCL_STRING"
    THEN ValidateByType(L, ucl_schema_validate_string(schema, obj, r.err))
    ELSE [L EXCEPT !.err = r.err, !.pc = "true"]

ValidateType(schema, obj, L) ==
    IF L.pc # "run" THEN L
    ELSE ValidateTyped(schema, obj, L,
             ucl_schema_type_is_allowed(ucl_object_find_key(schema, "type"),
                                        obj, L.err))

ucl_schema_validate(schema, obj, e) ==
    IF schema.type # "UCL_OBJECT"
    THEN {Returned(FALSE,
              ucl_schema_create_error(e, "UCL_SCHEMA_INVALID_SCHEMA", schema,
                  <<"schema is %s instead of object",
                    ucl_object_type_to_string(schema.type)>>))}
    ELSE {Outcome(ValidateType(schema, obj, L4)) :
            L4 \in UNION {ValidateNot(schema, obj, L3) :
            L3 \in UNION {ValidateOneOf(schema, obj, L2) :
            L2 \in UNION {ValidateAnyOf(schema, obj, L1) :
            L1 \in UNION {ValidateAllOf(schema, obj, L0) :
            L0 \in Uninitialised(e)}}}}}

ucl_object_validate(schema, obj, e) == ucl_schema_validate(schema, obj, e)

(***************************************************************************)
(* Harness: ucl_object_validate applied to scalar candidates under schemas *)
(* made of the combinators over short lists of type schemas, of type       *)
(* lists and of the number and string constraints, with and without an     *)
(* error record.                                                           *)
(***************************************************************************)
MaxAlternatives == 2

TypeSchema(name, len) == ObjectValue(<<Entry("type", StringValue(name, len))>>)

SchemaLeaves ==
    {TypeSchema("integer", 7), TypeSchema("string", 6), TypeSchema("boolean", 7)}

SchemaLists == SeqsUpTo(SchemaLeaves, MaxAlternatives)

Combinators == {"allOf", "anyOf", "oneOf"}

FixedSchemas ==
    {StringValue("integer", 7),
     TypeSchema("int", 3),
     ObjectValue(<<Entry("type", ArrayValue(<<StringValue("integer", 7),
                                              StringValue("string", 6)>>))>>),
     ObjectValue(<<Entry("type", StringValue("number", 6)),
                   Entry("maximum", IntValue(42)),
                   Entry("exclusiveMaximum", BoolValue(TRUE))>>),
     ObjectValue(<<Entry("minimum", IntValue(50)),
                   Entry("multipleOf", IntValue(5))>>),
     ObjectValue(<<Entry("multipleOf", IntValue(0))>>),
     ObjectValue(<<Entry("minLength", IntValue(2))>>),
     ObjectValue(<<Entry("maxLength", IntValue(0))>>),
     ObjectValue(<<Entry("anyOf", ArrayValue(<<
                       ObjectValue(<<Entry("not", TypeSchema("integer", 7))>>),
                       StringValue("x", 1)>>))>>),
     ObjectValue(<<Entry("oneOf", ArrayValue(<<
                       ObjectValue(<<Entry("oneOf", ArrayValue(<<
                           TypeSchema("integer", 7)>>))>>),
                       TypeSchema("string", 6)>>))>>)}

(* The number schemas: the bounds and their flags in every order of      *)
(* insertion, alone and under type number.                               *)
MaxConstraints == 3

NumberEntries ==
    {Entry("minimum", IntValue(42)), Entry("maximum", IntValue(43)),
     Entry("exclusiveMinimum", BoolValue(TRUE)),
     Entry("exclusiveMaximum", BoolValue(TRUE)),
     Entry("exclusiveMaximum", BoolValue(FALSE)),
     Entry("type", StringValue("number", 6))}

NumberSchemas ==
    {ObjectValue(es) : es \in
        {q \in SeqsUpTo(NumberEntries, MaxConstraints) :
            \A i, j \in DOMAIN q : i # j => q[i].key # q[j].key}}

SchemaInputs ==
    SchemaLeaves \cup FixedSchemas \cup NumberSchemas
    \cup {ObjectValue(<<Entry(k, ArrayValue(l))>>) :
              k \in Combinators, l \in SchemaLists}
    \cup {ObjectValue(<<Entry("not", s)>>) : s \in SchemaLeaves}
    \cup {ObjectValue(<<Entry(k, ArrayValue(l)), Entry("oneOf", ArrayValue(m))>>) :
              k \in {"allOf", "anyOf"}, l \in SchemaLists, m \in SchemaLists}
    \cup {ObjectValue(<<Entry("allOf", ArrayValue(l)), Entry("anyOf", ArrayValue(m))>>) :
              l \in SchemaLists, m \in SchemaLists}
    \cup {ObjectValue(<<Entry("anyOf", ArrayValue(l)), Entry("not", s)>>) :
              l \in SchemaLists, s \in SchemaLeaves}

Candidates ==
    {IntValue(41), IntValue(42), IntValue(43), TimeValue(44),
     StringValue("x", 1), BoolValue(TRUE)}

InitSchema ==
    /\ Idle
    /\ over = NUL
    /\ \E schema \in SchemaInputs, obj \in Candidates,
          e \in {ZeroRecord, NoRecord} :
            lx = [fn |-> "ucl_object_validate", schema |-> schema, obj |-> obj,
                  err |-> e, out |-> NoResult]

ApplyValidate ==
    /\ lx.fn = "ucl_object_validate"
    /\ lx.out = NoResult
    /\ \E r \in ucl_object_validate(lx.schema, lx.obj, lx.err) :
          lx' = [lx EXCEPT !.out = r]
    /\ UNCHANGED <<parser, objs, frames, err, over, os, hist>>

NextSchema == ApplyValidate

SpecSchema == InitSchema /\ [][NextSchema]_vars

(***************************************************************************)
(* The linear hash table (ucl_hash.c).  The table is                        *)
(*   [bucket, bucket_bit, bucket_max, bucket_mask, bucket_allocated,       *)
(*    low_max, low_mask, split, state, count, nodes]:                      *)
(* bucket is the array of the segments, a segment the array of its heads   *)
(* (a node or NULL), nodes the list nodes_head .. nodes_tail as the nodes  *)
(* of its entries.  A node is [next, prev, data, key] in the heap N of the *)
(* nodes, the node of the k-th insertion being k.  A segment comes from    *)
(* UCL_ALLOC with its slots not set: they hold Unset until written.  The   *)
(* masks are of the form 2^k - 1, so hash & mask is hash % (mask + 1).     *)
(* The macros of utlist.h work on the variable they are given: on a slot   *)
(* of the table in ucl_hash_grow_step, ucl_hash_shrink_step and            *)
(* ucl_hash_remove, on the local `bucket` in ucl_hash_insert and           *)
(* ucl_hash_remove_existing.                                               *)
(***************************************************************************)
UCL_HASHLIN_BIT == 6

UCL_HASHLIN_STATE_STABLE == 0

UCL_HASHLIN_STATE_GROW == 1

UCL_HASHLIN_STATE_SHRINK == 2

Unset == 0 - 1

RECURSIVE Pow2(_)
Pow2(n) == IF n = 0 THEN 1 ELSE 2 * Pow2(n - 1)

RECURSIVE ucl_ilog2_u32(_)
ucl_ilog2_u32(value) == IF value < 2 THEN 0 ELSE 1 + ucl_ilog2_u32(value \div 2)

NewNode == [next |-> NULL, prev |-> NULL, data |-> NULL, key |-> 0]

ucl_hash_create ==
    [bucket_bit |-> UCL_HASHLIN_BIT,
     bucket_max |-> Pow2(UCL_HASHLIN_BIT),
     bucket_mask |-> Pow2(UCL_HASHLIN_BIT) - 1,
     bucket |-> <<[i \in 1..Pow2(UCL_HASHLIN_BIT) |-> NULL]>>,
     nodes |-> <<>>,
     bucket_allocated |-> 1,
     low_max |-> 0, low_mask |-> 0, split |-> 0,
     state |-> UCL_HASHLIN_STATE_STABLE,
     count |-> 0]

(* A pointer to a slot is [seg, pos], both counted from 0. *)
ucl_hash_pos(pos) ==
    IF pos < Pow2(UCL_HASHLIN_BIT) THEN [seg |-> 0, pos |-> pos]
    ELSE [seg |-> ucl_ilog2_u32(pos) - UCL_HASHLIN_BIT + 1,
          pos |-> pos - Pow2(ucl_ilog2_u32(pos))]

SlotGet(h, ptr) == h.bucket[ptr.seg + 1][ptr.pos + 1]

SlotSet(h, ptr, node) == [h EXCEPT !.bucket[ptr.seg + 1][ptr.pos + 1] = node]

ucl_hash_bucket_ptr(h, hash) ==
    IF /\ h.state # UCL_HASHLIN_STATE_STABLE
       /\ hash % (h.low_mask + 1) >= h.split
    THEN ucl_hash_pos(hash % (h.low_mask + 1))
    ELSE ucl_hash_pos(hash % (h.bucket_mask + 1))

ucl_hash_bucket(h, hash) == SlotGet(h, ucl_hash_bucket_ptr(h, hash))

(* DL_APPEND (head, add), DL_DELETE (head, del) and DL_CONCAT (head1,      *)
(* head2) of utlist.h on the heap of the nodes: [head, N, crashed], head   *)
(* being what the macro leaves in the variable it was given.               *)
Listed(head, N, crashed) == [head |-> head, N |-> N, crashed |-> crashed]

NodeAppend(N, head, add) ==
    IF head = NULL
    THEN Listed(add, [N EXCEPT ![add].prev = add, ![add].next = NULL], FALSE)
    ELSE IF N[head].prev = NULL THEN Listed(head, N, TRUE)
    ELSE Listed(head,
                [[[N EXCEPT ![add].prev = N[head].prev]
                     EXCEPT ![N[head].prev].next = add]
                     EXCEPT ![head].prev = add, ![add].next = NULL],
                FALSE)

NodeDelete(N, head, del) ==
    IF N[del].prev = del THEN Listed(NULL, N, FALSE)
    ELSE IF del = head
    THEN IF N[del].next = NULL THEN Listed(head, N, TRUE)
         ELSE Listed(N[del].next,
                     [N EXCEPT ![N[del].next].prev = N[del].prev], FALSE)
    ELSE IF N[del].prev = NULL THEN Listed(head, N, TRUE)
    ELSE IF N[del].next # NULL
    THEN Listed(head,
                [[N EXCEPT ![N[del].prev].next = N[del].next]
                    EXCEPT ![N[del].next].prev = N[del].prev], FALSE)
    ELSE IF head = NULL THEN Listed(head, N, TRUE)
    ELSE Listed(head,
                [[N EXCEPT ![N[del].prev].next = N[del].next]
                    EXCEPT ![head].prev = N[del].prev], FALSE)

NodeConcat(N, head1, head2) ==
    IF head2 = NULL THEN Listed(head1, N, FALSE)
    ELSE IF head1 = NULL THEN Listed(head2, N, FALSE)
    ELSE IF N[head1].prev = NULL THEN Listed(head1, N, TRUE)
    ELSE Listed(head1,
                [[[N EXCEPT ![head2].prev = N[head1].prev]
                     EXCEPT ![N[head1].prev].next = head2]
                     EXCEPT ![head1].prev = N[head2].prev], FALSE)

(* The nodes of a bucket from its head, following next. *)
RECURSIVE BucketFrom(_, _, _)
BucketFrom(N, i, fuel) ==
    IF i = NULL \/ i = Unset \/ fuel = 0 THEN <<>>
    ELSE <<i>> \o BucketFrom(N, N[i].next, fuel - 1)

Stepped(h, N, crashed) == [h |-> h, N |-> N, crashed |-> crashed]

(* The flush of the low bucket into the two buckets of a split, lines      *)
(* 236-247; split is <<split[0], split[1]>>.                               *)
SplitIndex(h, N, j) ==
    IF (N[j].key % (h.bucket_mask + 1)) - (N[j].key % (h.low_mask + 1)) # 0
    THEN 2 ELSE 1

RECURSIVE GrowFlush(_, _, _, _)
GrowFlushAppended(h, j_next, split, ptr, l) ==
    IF l.crashed THEN Stepped(h, l.N, TRUE)
    ELSE GrowFlush(SlotSet(h, ptr, l.head), l.N, j_next, split)

GrowFlushInto(h, N, j, split, ptr) ==
    IF SlotGet(h, ptr) # NULL
    THEN GrowFlushAppended(h, N[j].next, split, ptr,
                           NodeAppend(N, SlotGet(h, ptr), j))
    ELSE GrowFlush(SlotSet(h, ptr, j), [N EXCEPT ![j].next = NULL],
                   N[j].next, split)

GrowFlush(h, N, j, split) ==
    IF j = NULL THEN Stepped(h, N, FALSE)
    ELSE GrowFlushInto(h, N, j, split, split[SplitIndex(h, N, j)])

GrowSplit(h) ==
    <<ucl_hash_pos(h.split), [seg |-> h.bucket_allocated - 1, pos |-> h.split]>>

RECURSIVE GrowLoop(_, _, _)
GrowForward(r, split_target) ==
    IF r.crashed THEN r
    ELSE IF r.h.split + 1 = r.h.low_max
    THEN Stepped([r.h EXCEPT !.split = @ + 1,
                             !.state = UCL_HASHLIN_STATE_STABLE], r.N, FALSE)
    ELSE GrowLoop([r.h EXCEPT !.split = @ + 1], r.N, split_target)

GrowLoop(h, N, split_target) ==
    IF h.split + h.low_max < split_target
    THEN GrowForward(
             GrowFlush(SlotSet(SlotSet(h, GrowSplit(h)[1], NULL),
                               GrowSplit(h)[2], NULL),
                       N, SlotGet(h, GrowSplit(h)[1]), GrowSplit(h)),
             split_target)
    ELSE Stepped(h, N, FALSE)

GrowSetup(h) ==
    IF h.state # UCL_HASHLIN_STATE_GROW /\ h.count > h.bucket_max \div 2
    THEN IF h.state = UCL_HASHLIN_STATE_STABLE
         THEN [h EXCEPT !.low_max = h.bucket_max,
                        !.low_mask = h.bucket_mask,
                        !.bucket_bit = @ + 1,
                        !.bucket_max = Pow2(h.bucket_bit + 1),
                        !.bucket_mask = Pow2(h.bucket_bit + 1) - 1,
                        !.bucket = Append(@, [i \in 1..h.bucket_max |-> Unset]),
                        !.bucket_allocated = @ + 1,
                        !.split = 0,
                        !.state = UCL_HASHLIN_STATE_GROW]
         ELSE [h EXCEPT !.state = UCL_HASHLIN_STATE_GROW]
    ELSE h

GrowStarted(h, N) ==
    IF h.state = UCL_HASHLIN_STATE_GROW THEN GrowLoop(h, N, 2 * h.count)
    ELSE Stepped(h, N, FALSE)

ucl_hash_grow_step(h, N) == GrowStarted(GrowSetup(h), N)

RECURSIVE ShrinkLoop(_, _, _)
ShrinkBackward(h, l, split_target) ==
    IF l.crashed THEN Stepped(h, l.N, TRUE)
    ELSE IF h.split = 0
    THEN Stepped([SlotSet(h, ucl_hash_pos(h.split), l.head)
                     EXCEPT !.state = UCL_HASHLIN_STATE_STABLE,
                            !.bucket_bit = @ - 1,
                            !.bucket_max = Pow2(h.bucket_bit - 1),
                            !.bucket_mask = Pow2(h.bucket_bit - 1) - 1,
                            !.bucket_allocated = @ - 1,
                            !.bucket = SubSeq(@, 1, h.bucket_allocated - 1)],
                 l.N, FALSE)
    ELSE ShrinkLoop(SlotSet(h, ucl_hash_pos(h.split), l.head), l.N, split_target)

ShrinkConcat(h, N, split_target) ==
    ShrinkBackward(h,
        NodeConcat(N, SlotGet(h, ucl_hash_pos(h.split)),
                   SlotGet(h, [seg |-> h.bucket_allocated - 1, pos |-> h.split])),
        split_target)

ShrinkLoop(h, N, split_target) ==
    IF h.split + h.low_max > split_target
    THEN ShrinkConcat([h EXCEPT !.split = @ - 1], N, split_target)
    ELSE Stepped(h, N, FALSE)

ShrinkSetupNoFloor(h) ==
    IF /\ h.state # UCL_HASHLIN_STATE_SHRINK
       /\ h.count < h.bucket_max \div 8
    THEN IF h.state = UCL_HASHLIN_STATE_STABLE
         THEN [h EXCEPT !.low_max = h.bucket_max \div 2,
                        !.low_mask = h.bucket_mask \div 2,
                        !.split = h.bucket_max \div 2,
                        !.state = UCL_HASHLIN_STATE_SHRINK]
         ELSE [h EXCEPT !.state = UCL_HASHLIN_STATE_SHRINK]
    ELSE h

ShrinkSetup(h) ==
    IF /\ h.state # UCL_HASHLIN_STATE_SHRINK
       /\ h.count < h.bucket_max \div 8
       /\ h.bucket_bit > UCL_HASHLIN_BIT
    THEN IF h.state = UCL_HASHLIN_STATE_STABLE
         THEN [h EXCEPT !.low_max = h.bucket_max \div 2,
                        !.low_mask = h.bucket_mask \div 2,
                        !.split = h.bucket_max \div 2,
                        !.state = UCL_HASHLIN_STATE_SHRINK]
         ELSE [h EXCEPT !.state = UCL_HASHLIN_STATE_SHRINK]
    ELSE h

ShrinkStarted(h, N) ==
    IF h.state = UCL_HASHLIN_STATE_SHRINK THEN ShrinkLoop(h, N, 8 * h.count)
    ELSE Stepped(h, N, FALSE)

ucl_hash_shrink_step(h, N) == ShrinkStarted(ShrinkSetup(h), N)

(* Results of the calls: [h, N, ret, crashed]. *)
Called(s, ret) == [h |-> s.h, N |-> s.N, ret |-> ret, crashed |-> s.crashed]

HashInserted(h, node, data, hash, l) ==
    IF l.crashed THEN Stepped(h, l.N, TRUE)
    ELSE ucl_hash_grow_step(
             [h EXCEPT !.nodes = Append(@, node), !.count = @ + 1],
             [l.N EXCEPT ![node].data = data, ![node].key = hash])

ucl_hash_insert(h, N, node, data, hash) ==
    Called(HashInserted(h, node, data, hash,
                        NodeAppend(N, ucl_hash_bucket(h, hash), node)),
           NULL)

HashRemovedExisting(h, node, l) ==
    IF l.crashed THEN Called(Stepped(h, l.N, TRUE), NULL)
    ELSE Called(ucl_hash_shrink_step([h EXCEPT !.count = @ - 1], l.N),
                l.N[node].data)

ucl_hash_remove_existing(h, N, node) ==
    HashRemovedExisting(h, node,
        NodeDelete(N, ucl_hash_bucket(h, N[node].key), node))

(* cmp (cmp_arg, i->data) == 0: the elements compare by their value. *)
HashRemoved(h, let_ptr, i, l) ==
    IF l.crashed THEN Called(Stepped(h, l.N, TRUE), NULL)
    ELSE Called(ucl_hash_shrink_step(
                    [SlotSet(h, let_ptr, l.head) EXCEPT !.count = @ - 1], l.N),
                l.N[i].data)

RECURSIVE HashRemoveLoop(_, _, _, _, _, _, _)
HashRemoveLoop(h, N, value, cmp_arg, hash, let_ptr, i) ==
    IF i = NULL THEN Called(Stepped(h, N, FALSE), NULL)
    ELSE IF N[i].key = hash /\ value[N[i].data] = cmp_arg
    THEN HashRemoved(h, let_ptr, i, NodeDelete(N, SlotGet(h, let_ptr), i))
    ELSE HashRemoveLoop(h, N, value, cmp_arg, hash, let_ptr, N[i].next)

ucl_hash_remove(h, N, value, cmp_arg, hash) ==
    HashRemoveLoop(h, N, value, cmp_arg, hash, ucl_hash_bucket_ptr(h, hash),
                   ucl_hash_bucket(h, hash))

RECURSIVE HashSearchLoop(_, _, _, _, _)
HashSearchLoop(N, value, cmp_arg, hash, i) ==
    IF i = NULL THEN NULL
    ELSE IF N[i].key = hash /\ value[N[i].data] = cmp_arg THEN N[i].data
    ELSE HashSearchLoop(N, value, cmp_arg, hash, N[i].next)

ucl_hash_search(h, N, value, cmp_arg, hash) ==
    HashSearchLoop(N, value, cmp_arg, hash, ucl_hash_bucket(h, hash))

(***************************************************************************)
(* Harness: a table made by ucl_hash_create, filled and emptied by the     *)
(* calls of ucl_hash.h.  The k-th insertion inserts the node k with the    *)
(* data k; its hash and the value the compare function looks at follow     *)
(* the pattern chosen at the start: hashes all different, hashes that      *)
(* differ above the bits of the minimal table, or one hash for elements    *)
(* that compare equal by twos.  The elements are removed oldest first.     *)
(***************************************************************************)
MaxInserts == 34

HashPatterns == {"spread", "clash", "equal"}

HashOf(pattern, k) ==
    IF pattern = "spread" THEN k
    ELSE IF pattern = "clash" THEN 64 * k + 3
    ELSE 7

ValueOf(pattern, k) == IF pattern = "equal" THEN k % 2 ELSE k

Values(pattern) == [k \in 1..(MaxInserts + 1) |-> ValueOf(pattern, k)]

NoCall == [op |-> "none", node |-> 0, hash |-> 0, arg |-> 0, ret |-> 0,
           seen |-> <<>>, crashed |-> FALSE]

InitHash ==
    /\ Idle
    /\ over = NUL
    /\ \E pattern \in HashPatterns :
          lx = [fn |-> "ucl_hash", pattern |-> pattern, h |-> ucl_hash_create,
                N |-> <<>>, live |-> {}, last |-> NoCall]

HashRunning ==
    /\ lx.fn = "ucl_hash"
    /\ ~ lx.last.crashed

HashDone(op, node, hash, arg, r, live) ==
    /\ lx' = [lx EXCEPT !.h = r.h, !.N = r.N, !.live = live,
                        !.last = [NoCall EXCEPT !.op = op, !.node = node,
                                                !.hash = hash, !.arg = arg,
                                                !.ret = r.ret,
                                                !.crashed = r.crashed]]
    /\ UNCHANGED <<parser, objs, frames, err, over, os, hist>>

HashInsert ==
    /\ HashRunning
    /\ Len(lx.N) < MaxInserts
    /\ HashDone("insert", Len(lx.N) + 1, HashOf(lx.pattern, Len(lx.N) + 1), 0,
                ucl_hash_insert(lx.h, Append(lx.N, NewNode), Len(lx.N) + 1,
                                Len(lx.N) + 1,
                                HashOf(lx.pattern, Len(lx.N) + 1)),
                lx.live \cup {Len(lx.N) + 1})

Oldest(live) == CHOOSE k \in live : \A j \in live : k <= j

HashRemoveExisting ==
    /\ HashRunning
    /\ lx.live # {}
    /\ HashDone("remove_existing", Oldest(lx.live), 0, 0,
                ucl_hash_remove_existing(lx.h, lx.N, Oldest(lx.live)),
                lx.live \ {Oldest(lx.live)})

(* The elements asked for: the oldest stored, the last inserted and one   *)
(* that was never inserted.                                               *)
Asked ==
    ((IF lx.live = {} THEN {} ELSE {Oldest(lx.live)})
     \cup {Len(lx.N), Len(lx.N) + 1}) \ {0}

HashRemove ==
    /\ HashRunning
    /\ \E k \in Asked :
          HashDone("remove", 0, HashOf(lx.pattern, k), ValueOf(lx.pattern, k),
                   ucl_hash_remove(lx.h, lx.N, Values(lx.pattern),
                                   ValueOf(lx.pattern, k), HashOf(lx.pattern, k)),
                   lx.live \ {ucl_hash_remove(lx.h, lx.N, Values(lx.pattern),
                                   ValueOf(lx.pattern, k),
                                   HashOf(lx.pattern, k)).ret})

HashSearch ==
    /\ HashRunning
    /\ \E k \in Asked :
          HashDone("search", 0, HashOf(lx.pattern, k), ValueOf(lx.pattern, k),
                   [h |-> lx.h, N |-> lx.N, crashed |-> FALSE,
                    ret |-> ucl_hash_search(lx.h, lx.N, Values(lx.pattern),
                                ValueOf(lx.pattern, k), HashOf(lx.pattern, k))],
                   lx.live)

(* while ((cur = ucl_hash_iterate (h, &it)) != NULL), from it = NULL. *)
HashData(h, N) == [i \in DOMAIN h.nodes |-> N[h.nodes[i]].data]

HashIterate ==
    /\ HashRunning
    /\ lx' = [lx EXCEPT !.last =
                 [NoCall EXCEPT !.op = "iterate",
                     !.crashed = ucl_hash_iterate(HashData(lx.h, lx.N), NULL).crashed,
                     !.seen = IF ucl_hash_iterate(HashData(lx.h, lx.N), NULL).crashed
                              THEN <<>>
                              ELSE IterateFrom(HashData(lx.h, lx.N), NULL, <<>>)]]
    /\ UNCHANGED <<parser, objs, frames, err, over, os, hist>>

NextHash ==
    \/ HashInsert
    \/ HashRemoveExisting
    \/ HashRemove
    \/ HashSearch
    \/ HashIterate

SpecHash == InitHash /\ [][NextHash]_vars

(***************************************************************************)
(* The emitter (ucl_emitter.c).  An object to emit is a record of its      *)
(* type, key, flags and value; value.ov of a UCL_OBJECT is the list of the *)
(* entries of its table in the order ucl_hash_iterate gives them, each     *)
(* entry the chain of the siblings under one key from its head along       *)
(* next; value.av of a UCL_ARRAY is the chain of its elements.  The        *)
(* output buffer is the sequence of the bytes appended so far.             *)
(***************************************************************************)
UCL_EMIT_JSON == "UCL_EMIT_JSON"
UCL_EMIT_JSON_COMPACT == "UCL_EMIT_JSON_COMPACT"
UCL_EMIT_CONFIG == "UCL_EMIT_CONFIG"
UCL_EMIT_YAML == "UCL_EMIT_YAML"

EmitInt(key, n) ==
    [type |-> "UCL_INT", key |-> key, flags |-> {}, iv |-> n, sv |-> "",
     ov |-> <<>>, av |-> <<>>]

\* a double with an integral value
EmitFloat(key, n) ==
    [type |-> "UCL_FLOAT", key |-> key, flags |-> {}, iv |-> n, sv |-> "",
     ov |-> <<>>, av |-> <<>>]

EmitBoolean(key, b) ==
    [type |-> "UCL_BOOLEAN", key |-> key, flags |-> {},
     iv |-> IF b THEN 1 ELSE 0, sv |-> "", ov |-> <<>>, av |-> <<>>]

EmitString(key, s) ==
    [type |-> "UCL_STRING", key |-> key, flags |-> {}, iv |-> 0, sv |-> s,
     ov |-> <<>>, av |-> <<>>]

EmitObject(key, chains) ==
    [type |-> "UCL_OBJECT", key |-> key, flags |-> {}, iv |-> 0, sv |-> "",
     ov |-> chains, av |-> <<>>]

EmitArray(key, elements) ==
    [type |-> "UCL_ARRAY", key |-> key, flags |-> {}, iv |-> 0, sv |-> "",
     ov |-> <<>>, av |-> elements]

\* struct ucl_emitter_context: the buffer behind func->ud and ident
NewContext == [out |-> <<>>, ident |-> 0, crashed |-> FALSE]

\* ucl_utstring_append_len
AppendLen(ctx, str) == [ctx EXCEPT !.out = @ \o Bytes(str)]

\* ucl_utstring_append_character (c, len, ud)
AppendCharacter(ctx, c, len) ==
    [ctx EXCEPT !.out = @ \o [i \in 1..len |-> c]]

DigitText == <<"0", "1", "2", "3", "4", "5", "6", "7", "8", "9">>

RECURSIVE NatText(_)
NatText(n) ==
    IF n < 10 THEN <<DigitText[n + 1]>>
    ELSE Append(NatText(n \div 10), DigitText[(n % 10) + 1])

\* utstring_printf (buf, "%jd", (intmax_t)val)
AppendInt(ctx, val) ==
    [ctx EXCEPT !.out = @ \o (IF val < 0 THEN <<"-">> \o NatText(0 - val)
                                         ELSE NatText(val))]

\* utstring_printf (buf, "%.1lf", val), val == (double)(int)val
AppendDouble(ctx, val) ==
    AppendLen(AppendInt(ctx, val), ".0")

ucl_add_tabs(ctx, compact) ==
    IF ~ compact /\ ctx.ident > 0
    THEN AppendCharacter(ctx, " ", ctx.ident * 4)
    ELSE ctx

\* the bytes of ucl_chartable with UCL_CHARACTER_JSON_UNSAFE
UCL_CHARACTER_JSON_UNSAFE == {"\n", "\r", "\t", "\f", "\\", "\""}

JsonEscape(c) ==
    CASE c = "\n" -> "\\n"
      [] c = "\r" -> "\\r"
      [] c = "\t" -> "\\t"
      [] c = "\f" -> "\\f"
      [] c = "\\" -> "\\\\"
      [] c = "\"" -> "\\\""
      [] OTHER -> ""

RECURSIVE StringWriteLoop(_, _, _)
StringWriteLoop(ctx, str, p) ==
    IF p > Len(str) THEN ctx
    ELSE IF ucl_test_character(str[p], UCL_CHARACTER_JSON_UNSAFE)
    THEN StringWriteLoop(AppendLen(ctx, JsonEscape(str[p])), str, p + 1)
    ELSE StringWriteLoop(AppendCharacter(ctx, str[p], 1), str, p + 1)

ucl_elt_string_write_json(ctx, str, id) ==
    LET quoted == id # UCL_EMIT_YAML
        c0 == IF quoted THEN AppendCharacter(ctx, "\"", 1) ELSE ctx
        c1 == StringWriteLoop(c0, Bytes(str), 1)
    IN  IF quoted THEN AppendCharacter(c1, "\"", 1) ELSE c1

\* UCL_EMIT_IDENT_TOP_OBJ; is_top is ctx->top == obj
UCL_EMIT_IDENT_TOP_OBJ(id, is_top) ==
    ~ is_top \/ id = UCL_EMIT_JSON_COMPACT \/ id = UCL_EMIT_JSON

ucl_emitter_common_end_object(ctx, id, is_top, compact) ==
    IF UCL_EMIT_IDENT_TOP_OBJ(id, is_top)
    THEN LET c0 == [ctx EXCEPT !.ident = @ - 1]
         IN  IF compact THEN AppendCharacter(c0, "}", 1)
             ELSE LET c1 == IF id # UCL_EMIT_CONFIG
                            THEN AppendCharacter(c0, "\n", 1) ELSE c0
                  IN  AppendCharacter(ucl_add_tabs(c1, compact), "}", 1)
    ELSE ctx

\* ucl_emitter_common_end_array without ctx->ident --
EndArrayKeepIdent(ctx, id, compact) ==
    IF compact THEN AppendCharacter(ctx, "]", 1)
    ELSE LET c1 == IF id # UCL_EMIT_CONFIG
                   THEN AppendCharacter(ctx, "\n", 1) ELSE ctx
         IN  AppendCharacter(ucl_add_tabs(c1, compact), "]", 1)

ucl_emitter_common_end_array(ctx, id, compact) ==
    LET c0 == [ctx EXCEPT !.ident = @ - 1]
    IN  IF compact THEN AppendCharacter(c0, "]", 1)
        ELSE LET c1 == IF id # UCL_EMIT_CONFIG
                       THEN AppendCharacter(c0, "\n", 1) ELSE c0
             IN  AppendCharacter(ucl_add_tabs(c1, compact), "]", 1)

\* the separator before an element that is not the first
EmitComma(ctx, compact) ==
    IF compact THEN AppendCharacter(ctx, ",", 1) ELSE AppendLen(ctx, ",\n")

\* the key of a JSON member and the colon after it
EmitJsonKey(ctx, id, key, compact) ==
    LET c0 == IF Len(key) > 0 THEN ucl_elt_string_write_json(ctx, key, id)
              ELSE AppendLen(ctx, "null")
    IN  IF compact THEN AppendCharacter(c0, ":", 1) ELSE AppendLen(c0, ": ")

\* the key of a config entry
EmitConfigKey(ctx, id, obj) ==
    LET c0 == IF "UCL_OBJECT_NEED_KEY_ESCAPE" \in obj.flags
              THEN ucl_elt_string_write_json(ctx, obj.key, id)
              ELSE AppendLen(ctx, obj.key)
    IN  IF obj.type # "UCL_OBJECT" /\ obj.type # "UCL_ARRAY"
        THEN AppendLen(c0, " = ")
        ELSE AppendCharacter(c0, " ", 1)

\* ucl_emitter_common_elt: what follows the value in the config format
EmitConfigEnd(ctx, id, is_top, obj, print_key) ==
    IF id = UCL_EMIT_CONFIG /\ ~ is_top
    THEN IF obj.type # "UCL_OBJECT" /\ obj.type # "UCL_ARRAY"
         THEN IF print_key THEN AppendLen(ctx, ";\n") ELSE AppendLen(ctx, ",\n")
         ELSE AppendCharacter(ctx, "\n", 1)
    ELSE ctx

\* a head whose siblings are not looked at
HasNoNext(cur) == FALSE

\* cur->next != NULL for the head of a chain
HasNext(cur) == Len(cur) > 1

\* the entries of a table as ucl_hash_iterate numbers them
EntryIndexes(ov) == [i \in 1..Len(ov) |-> i]

RECURSIVE ucl_emitter_common_elt(_, _, _, _, _, _, _)
RECURSIVE ucl_emitter_common_start_object(_, _, _, _, _)
RECURSIVE ObjectLoop(_, _, _, _, _, _)
RECURSIVE ConfigLoop(_, _, _, _, _, _)
RECURSIVE ArrayLoop(_, _, _, _, _)

\* while (cur) { ucl_emitter_common_elt (ctx, cur, first, false, compact); }
ArrayLoop(ctx, id, cur, i, compact) ==
    IF i > Len(cur) \/ ctx.crashed THEN ctx
    ELSE ArrayLoop(ucl_emitter_common_elt(ctx, id, FALSE, cur[i], i = 1,
                                          FALSE, compact),
                   id, cur, i + 1, compact)

ucl_emitter_common_start_array(ctx, id, cur, compact) ==
    LET c0 == IF compact THEN AppendCharacter(ctx, "[", 1)
              ELSE AppendLen(ctx, "[\n")
    IN  ArrayLoop([c0 EXCEPT !.ident = @ + 1], id, cur, 1, compact)

\* LL_FOREACH (cur, elt) ucl_emitter_common_elt (ctx, elt, first, true, compact)
ConfigLoop(ctx, id, cur, i, first, compact) ==
    IF i > Len(cur) \/ ctx.crashed THEN ctx
    ELSE ConfigLoop(ucl_emitter_common_elt(ctx, id, FALSE, cur[i], first,
                                           TRUE, compact),
                    id, cur, i + 1, first, compact)

\* the implicit array of a key in the formats other than config
EmitImplicitArray(ctx, id, cur, first, compact) ==
    LET c0 == IF ~ first THEN EmitComma(ctx, compact) ELSE ctx
        c1 == EmitJsonKey(ucl_add_tabs(c0, compact), id, cur[1].key, compact)
        c2 == ucl_emitter_common_start_array(c1, id, cur, compact)
    IN  IF c2.crashed THEN c2
        ELSE ucl_emitter_common_end_array(c2, id, compact)

\* the body of while ((cur = ucl_hash_iterate (obj->value.ov, &it)))
ObjectTurn(ctx, id, cur, first, compact) ==
    IF id = UCL_EMIT_CONFIG
    THEN ConfigLoop(ctx, id, cur, 1, first, compact)
    ELSE IF HasNext(cur)
    THEN EmitImplicitArray(ctx, id, cur, first, compact)
    ELSE ucl_emitter_common_elt(ctx, id, FALSE, cur[1], first, TRUE, compact)

ObjectLoop(ctx, id, obj, order, i, compact) ==
    IF i > Len(order) \/ ctx.crashed THEN ctx
    ELSE ObjectLoop(ObjectTurn(ctx, id, obj.ov[order[i]], i = 1, compact),
                    id, obj, order, i + 1, compact)

ucl_emitter_common_start_object(ctx, id, is_top, obj, compact) ==
    LET c0 == IF UCL_EMIT_IDENT_TOP_OBJ(id, is_top)
              THEN LET c == IF compact THEN AppendCharacter(ctx, "{", 1)
                            ELSE AppendLen(ctx, "{\n")
                   IN  [c EXCEPT !.ident = @ + 1]
              ELSE ctx
    IN  IF ucl_hash_iterate(EntryIndexes(obj.ov), NULL).crashed
        THEN [c0 EXCEPT !.crashed = TRUE]
        ELSE ObjectLoop(c0, id, obj,
                        IterateFrom(EntryIndexes(obj.ov), NULL, <<>>), 1,
                        compact)

\* ucl_emitter_common_elt: switch (obj->type)
EmitValue(ctx, id, is_top, obj, compact) ==
    CASE obj.type = "UCL_INT" -> AppendInt(ctx, obj.iv)
      [] obj.type \in {"UCL_FLOAT", "UCL_TIME"} -> AppendDouble(ctx, obj.iv)
      [] obj.type = "UCL_BOOLEAN" ->
            IF obj.iv # 0 THEN AppendLen(ctx, "true")
            ELSE AppendLen(ctx, "false")
      [] obj.type = "UCL_STRING" -> ucl_elt_string_write_json(ctx, obj.sv, id)
      [] obj.type = "UCL_NULL" -> AppendLen(ctx, "null")
      [] obj.type = "UCL_OBJECT" ->
            LET c0 == ucl_emitter_common_start_object(ctx, id, is_top, obj,
                                                      compact)
            IN  IF c0.crashed THEN c0
                ELSE ucl_emitter_common_end_object(c0, id, is_top, compact)
      [] obj.type = "UCL_ARRAY" ->
            LET c0 == ucl_emitter_common_start_array(ctx, id, obj.av, compact)
            IN  IF c0.crashed THEN c0
                ELSE ucl_emitter_common_end_array(c0, id, compact)
      [] OTHER -> ctx

ucl_emitter_common_elt(ctx, id, is_top, obj, first, print_key, compact) ==
    LET c0 == IF id # UCL_EMIT_CONFIG /\ ~ first
              THEN EmitComma(ctx, compact) ELSE ctx
        c1 == ucl_add_tabs(c0, compact)
        c2 == IF ~ print_key THEN c1
              ELSE IF id = UCL_EMIT_CONFIG THEN EmitConfigKey(c1, id, obj)
              ELSE EmitJsonKey(c1, id, obj.key, compact)
        c3 == EmitValue(c2, id, is_top, obj, compact)
    IN  IF c3.crashed THEN c3
        ELSE EmitConfigEnd(c3, id, is_top, obj, print_key)

\* UCL_EMIT_TYPE_IMPL: the compact flag of a format
Compact(id) == id = UCL_EMIT_JSON_COMPACT

\* ctx.ops->ucl_emitter_write_elt (&ctx, obj, true, false) with ctx.top = obj
ucl_object_emit_full(obj, emit_type) ==
    ucl_emitter_common_elt(NewContext, emit_type, TRUE, obj, TRUE, FALSE,
                           Compact(emit_type))

(***************************************************************************)
(* The emitter alone: ucl_object_emit of an object in each format.  The    *)
(* object has up to two keys; under the first there are up to MaxSiblings  *)
(* values.                                                                 *)
(***************************************************************************)
MaxSiblings == 3

EmitFormats ==
    {UCL_EMIT_JSON, UCL_EMIT_JSON_COMPACT, UCL_EMIT_CONFIG, UCL_EMIT_YAML}

\* the values a key can have
EmitValues(key) ==
    {EmitInt(key, 1), EmitInt(key, 2), EmitInt(key, 3), EmitString(key, "a"),
     EmitObject(key, <<>>),
     EmitObject(key, << <<EmitInt("n", 7), EmitInt("n", 8)>> >>)}

RECURSIVE EmitChains(_, _)
EmitChains(key, n) ==
    IF n = 1 THEN {<<v>> : v \in EmitValues(key)}
    ELSE EmitChains(key, n - 1) \cup
         {Append(c, v) : c \in EmitChains(key, n - 1), v \in EmitValues(key)}

\* what may follow the first key
EmitRest ==
    {<<>>,
     << <<EmitBoolean("m", TRUE)>> >>,
     << <<EmitFloat("m", 4), EmitArray("m", <<EmitInt("", 5), EmitInt("", 6)>>)>> >>}

EmitInputs ==
    {EmitObject("", <<>>)} \cup
    {EmitObject("", <<c>> \o rest) : c \in EmitChains("k", MaxSiblings),
                                     rest \in EmitRest}

NoEmit ==
    [op |-> "none", id |-> "", out |-> <<>>, ident |-> 0, crashed |-> FALSE]

InitEmit ==
    /\ Idle
    /\ over = NUL
    /\ \E obj \in EmitInputs :
          lx = [fn |-> "ucl_object_emit", obj |-> obj, last |-> NoEmit]

Emitted(id, ctx) ==
    /\ lx' = [lx EXCEPT !.last = [op |-> "emit", id |-> id, out |-> ctx.out,
                                  ident |-> ctx.ident,
                                  crashed |-> ctx.crashed]]
    /\ UNCHANGED <<parser, objs, frames, err, over, os, hist>>

ApplyEmit ==
    /\ lx.fn = "ucl_object_emit"
    /\ ~ lx.last.crashed
    /\ \E id \in EmitFormats : Emitted(id, ucl_object_emit_full(lx.obj, id))

NextEmit == ApplyEmit

SpecEmit == InitEmit /\ [][NextEmit]_vars

(***************************************************************************)
(* Claims about the parser.                                                *)
(***************************************************************************)
Range(s) == {s[i] : i \in DOMAIN s}

NestingError == "maximum include nesting limit is reached"

\* C1: once an operation of the parser (ucl_parser_add_chunk, or a macro or
\* an include run inside it) has reported an error, the parser is in the
\* state ERROR and stays there, so that every later chunk is rejected
\* until the parser is freed.
C1_ErrorIsTerminal ==
    (parser.fate = "live" /\ hist.failed) => parser.state = "ERROR"

\* C2: the parser never runs more than UCL_MAX_RECURSION nested activations
\* of the state machine, and the chunk that takes the nesting counter past
\* UCL_MAX_RECURSION is not parsed: the include fails, every activation is
\* waiting for it or returning false, and the error is the nesting error.
C2_NestingCeiling ==
    /\ Len(frames) <= UCL_MAX_RECURSION
    /\ (parser.fate = "live" /\ parser.recursion > UCL_MAX_RECURSION)
       => /\ \A i \in 1..Len(frames) : frames[i].pc # "loop"
          /\ frames # <<>> => (Top.pc = "ret" /\ ~ Top.res)
          /\ err.msg = NestingError

\* an include at the ceiling has just been refused
C2_Witness ==
    /\ Len(frames) = UCL_MAX_RECURSION
    /\ parser.recursion = UCL_MAX_RECURSION + 1
    /\ Top.pc = "ret" /\ ~ Top.res
    /\ err.msg = NestingError

RECURSIVE LexLess(_, _)
\* place a comes before place b in the source
LexLess(a, b) ==
    IF a = <<>> THEN b # <<>>
    ELSE IF b = <<>> THEN FALSE
    ELSE IF Head(a) # Head(b) THEN Head(a) < Head(b)
    ELSE LexLess(Tail(a), Tail(b))

MacrosInSourceOrder ==
    \A i \in 1..(Len(hist.macros) - 1) :
        LexLess(hist.macros[i], hist.macros[i + 1])

\* while a handler runs, the chunk of its caller is as the caller left it
EnclosingChunkWaits ==
    \A i \in 1..Len(frames) :
        frames[i].pc = "handler"
            => parser.chunks[frames[i].ci] = frames[i].before[frames[i].ci]

\* C3: when an include macro is executed, every byte of the included chunk
\* is parsed before any further byte of the enclosing chunk is consumed, and
\* macros execute in the order they occur in the source.
C3_IncludedChunkParsedWhole ==
    /\ EnclosingChunkWaits
    /\ \A i \in 1..Len(frames) : ~ frames[i].partial
    /\ MacrosInSourceOrder

\* C4: when an include completes, the chunk it pushed has been popped: the
\* chunks of the parser, their cursors included, are what they were when
\* the include was called.
C4_IncludePopsItsChunk ==
    [][(/\ Len(frames) >= 2
        /\ Len(frames') = Len(frames) - 1
        /\ frames'[Len(frames')].pc = "loop")
       => parser'.chunks = frames'[Len(frames')].before]_vars

\* an include has returned true and its caller has not gone on yet
C4_Witness ==
    /\ frames # <<>>
    /\ Top.pc = "loop"
    /\ Top.at > 0
    /\ Top.before # <<>>
    /\ parser.chunks = Top.before
    /\ parser.recursion > Len(parser.chunks)

RECURSIVE KeysLogged(_, _)
\* the entries of the log of keys that name the object o, in order
KeysLogged(log, o) ==
    IF log = <<>> THEN <<>>
    ELSE IF Head(log).obj = o THEN <<Head(log)>> \o KeysLogged(Tail(log), o)
    ELSE KeysLogged(Tail(log), o)

RECURSIVE FirstOccurrences(_, _)
\* the keys of the entries, each at its first occurrence
FirstOccurrences(entries, seen) ==
    IF entries = <<>> THEN <<>>
    ELSE IF Head(entries).key \in seen
    THEN FirstOccurrences(Tail(entries), seen)
    ELSE <<Head(entries).key>>
             \o FirstOccurrences(Tail(entries), seen \cup {Head(entries).key})

ParsedObjects ==
    {o \in DOMAIN objs : objs[o].live /\ objs[o].type = "UCL_OBJECT"}

IteratedKeys(o) ==
    LET got == IterateFrom(objs[o].hash, NULL, <<>>)
    IN  [i \in 1..Len(got) |-> objs[got[i]].key]

RECURSIVE IdsLogged(_, _)
\* the ids of the values logged under the key k, in order
IdsLogged(entries, k) ==
    IF entries = <<>> THEN <<>>
    ELSE IF Head(entries).key = k
    THEN <<Head(entries).id>> \o IdsLogged(Tail(entries), k)
    ELSE IdsLogged(Tail(entries), k)

\* C6: a key parsed again in an object leaves the existing entry in place
\* and appends the new value at the end of its sibling chain: the chain of
\* a key lists its values in source order.
C6_SiblingChainInSourceOrder ==
    \A o \in ParsedObjects :
        \A k \in {e.key : e \in Range(KeysLogged(hist.keys, o))} :
            ChainFrom(objs, HASH_FIND(objs, objs[o].hash, k))
                = IdsLogged(KeysLogged(hist.keys, o), k)

\* a key with two values
C6_Witness ==
    \E o \in ParsedObjects :
        \E h \in Range(objs[o].hash) : Len(ChainFrom(objs, h)) >= 2

\* the references to the top object: one of the parser until it is freed,
\* one for each object taken and not given back
TopReferences == hist.held + (IF parser.fate = "freed" THEN 0 ELSE 1)

\* C7: ucl_parser_get_object returns the top object with its reference
\* count raised by one, so that the object is still valid after the parser
\* has been freed.
C7_TopObjectOutlivesParser ==
    /\ hist.got # NULL => hist.got = parser.top_obj
    /\ hist.held > 0
       => /\ objs[parser.top_obj].live
          /\ objs[parser.top_obj].ref = TopReferences

\* the parser has been freed and the program still holds the top object
C7_Witness ==
    /\ parser.fate = "freed"
    /\ hist.held > 0
    /\ objs[parser.top_obj].live
    /\ Len(objs) >= 2

\* the objects an object contains: the values of its keys with their
\* siblings, or the elements of its array
Children(O, id) ==
    IF O[id].type = "UCL_OBJECT"
    THEN UNION {Range(ChainFrom(O, h)) : h \in Range(O[id].hash)}
    ELSE IF O[id].type = "UCL_ARRAY" THEN Range(ChainFrom(O, O[id].head))
    ELSE {}

RECURSIVE Contents(_, _)
Contents(O, ids) ==
    LET more == ids \cup UNION {Children(O, i) : i \in ids}
    IN  IF more = ids THEN ids ELSE Contents(O, more)

\* C8: the reference count of a value is strictly positive from its
\* creation until the final unref, and the unref that takes the count of
\* the top object to zero releases it and, recursively, everything it
\* contains.  Every object of the heap is contained in the top object.
C8_ReleaseIsRecursive ==
    /\ \A o \in DOMAIN objs : objs[o].live => objs[o].ref >= 1
    /\ parser.top_obj # NULL
       => IF objs[parser.top_obj].live
          THEN /\ objs[parser.top_obj].ref = TopReferences
               /\ Contents(objs, {parser.top_obj}) = DOMAIN objs
               /\ \A o \in DOMAIN objs : objs[o].live
          ELSE /\ objs[parser.top_obj].ref = 0
               /\ TopReferences = 0
               /\ \A o \in DOMAIN objs : ~ objs[o].live

\* the last reference is gone and an array inside an object is released
C8_Witness ==
    /\ parser.top_obj # NULL
    /\ ~ objs[parser.top_obj].live
    /\ \E o \in DOMAIN objs :
          /\ o # parser.top_obj
          /\ objs[o].type = "UCL_ARRAY"
          /\ ~ objs[o].live

\* the macros ucl_parser_new registers
RegisteredMacros == {Bytes("include"), Bytes("includes")}

\* the activation on top is in MACRO_NAME at the white space that ends a
\* name it has scanned itself
AtMacroNameEnd ==
    /\ InState("MACRO_NAME")
    /\ Top.c_set
    /\ TopData.pos - Top.c > 0
    /\ ucl_test_character(Cur(TopData), UCL_CHARACTER_WHITESPACE_UNSAFE)

MacroNameRead == Slice(TopData, Top.c, TopData.pos)

RECURSIVE IndexFrom(_, _, _)
\* the first index >= i of data whose byte is in stop, Len(data) + 1 if none
IndexFrom(data, i, stop) ==
    IF i > Len(data) \/ data[i] \in stop THEN i
    ELSE IndexFrom(data, i + 1, stop)

RECURSIVE IndexPast(_, _, _)
\* the first index >= i of data whose byte is not in skipped
IndexPast(data, i, skipped) ==
    IF i > Len(data) \/ data[i] \notin skipped THEN i
    ELSE IndexPast(data, i + 1, skipped)

\* the argument of the macro whose value starts at byte i of data: the text
\* between quotes, the text between braces without its leading spaces, or
\* the text up to the end of the atom
MacroArgument(data, i) ==
    IF data[i] = "\""
    THEN SubSeq(data, i + 1, IndexFrom(data, i + 1, {"\""}) - 1)
    ELSE IF data[i] = "{"
    THEN LET b == IndexPast(data, i + 1, {" ", "\t", "\n", "\r"})
         IN  SubSeq(data, b, IndexFrom(data, b, {"}"}) - 1)
    ELSE SubSeq(data, i,
                IndexFrom(data, i, {" ", "\t", "\n", "\r", ";", ",", "]",
                                    "}"}) - 1)

\* the activation on top is in MACRO with the macro it has looked up, and
\* the value of the macro can be parsed
AtMacroValue ==
    /\ InState("MACRO")
    /\ Top.macro # "NULL"
    /\ ucl_parse_macro_value(TopData, err).ok

Closers == {"}", "]"}

\* the closing brackets among the bytes from..(to - 1) of data
ClosersIn(data, from, to) ==
    Cardinality({i \in from..(to - 1) : data[i] \in Closers})

\* C14: in AFTER_VALUE every } or ] that is read pops exactly one frame of
\* the container stack and the state stays AFTER_VALUE while brackets are
\* read; the pop that empties the stack ends the parse: the state machine
\* returns true in the state AFTER_VALUE.  (Stated for a turn that does not
\* fail and reads no comment.)
C14_CloserPopsOneFrame ==
    [][(/\ InState("AFTER_VALUE")
        /\ parser'.fate = "live"
        /\ ~ (frames'[Len(frames)].pc = "ret" /\ ~ frames'[Len(frames)].res))
       => LET data    == TopData.data
              to      == parser'.chunks[Top.ci].pos
              emptied == parser.stack # <<>> /\ parser'.stack = <<>>
              n       == ClosersIn(data, TopData.pos, to)
                            + (IF emptied THEN 1 ELSE 0)
          IN  (\A i \in TopData.pos..(to - 1) : data[i] \notin {"/", "#"})
              => /\ n <= Len(parser.stack)
                 /\ parser'.stack
                       = SubSeq(parser.stack, n + 1, Len(parser.stack))
                 /\ ucl_parse_after_value(parser, objs, TopData,
                                          err).parser.state = "AFTER_VALUE"
                 /\ emptied => /\ data[to] \in Closers
                               /\ frames'[Len(frames)].pc = "ret"
                               /\ frames'[Len(frames)].res
                               /\ parser'.state = "AFTER_VALUE"
                 /\ (parser'.stack # <<>>)
                       => frames'[Len(frames)].pc = "loop"]_vars

\* the } of {a=[1]} has emptied the stack after the ] popped the array:
\* the state machine has returned true and x is left unread
C14_Witness ==
    /\ Len(frames) = 1
    /\ Top.pc = "ret" /\ Top.res
    /\ parser.stack = <<>>
    /\ parser.state = "AFTER_VALUE"
    /\ TopData.data = Bytes("{a=[1]}x\n")
    /\ TopData.pos = 7

RECURSIVE LeadingComments(_)
\* the number of comments a sequence of tokens starts with
LeadingComments(toks) ==
    IF toks # <<>> /\ Head(toks) \in CommentTokens
    THEN 1 + LeadingComments(Tail(toks))
    ELSE 0

\* C15: from INIT, when the first byte that is not in a comment is [ the
\* root is an array and the state becomes VALUE; otherwise the root is an
\* object and the state becomes KEY, an opening { being consumed when it is
\* there and nothing being consumed when it is not.
C15_RootFromFirstByte ==
    (lx.fn = "root" /\ parser.state # "INIT")
    => LET toks  == lx.tokens
           k     == LeadingComments(toks)
           first == IF k < Len(toks) THEN toks[k + 1] ELSE <<>>
           after == Len(Flatten(SubSeq(toks, 1, k))) + 1
       IN  /\ parser.top_obj = 1
           /\ parser.stack = <<1>>
           /\ Len(objs) = 1
           /\ IF first = Bytes("[")
              THEN /\ objs[1].type = "UCL_ARRAY"
                   /\ parser.state = "VALUE"
                   /\ TopData.pos = after + 1
              ELSE /\ objs[1].type = "UCL_OBJECT"
                   /\ parser.state = "KEY"
                   /\ TopData.pos = after + (IF first = Bytes("{") THEN 1
                                             ELSE 0)

\* a chunk that starts with a comment and then [ has got an array as root
C15_Witness ==
    /\ lx.fn = "root"
    /\ lx.tokens = <<Bytes("#c\n"), Bytes("["), Bytes("a")>>
    /\ parser.state = "VALUE"
    /\ objs[parser.top_obj].type = "UCL_ARRAY"

\* C16: in a build without a signature verifier every includes macro
\* fails: its handler never hands the bytes of the file to the parser.
C16_IncludesNeverLoads ==
    ~ os.openssl
    => \A i \in 1..Len(frames) :
          ~ (frames[i].pc = "handler" /\ frames[i].macro = "includes")

\* C17: every descriptor opened and every region mapped for an include is
\* released on every exit path of the include: when no handler is running
\* the process holds no descriptor and no mapping.
C17_IncludeReleasesAll ==
    (\A i \in 1..Len(frames) : frames[i].pc # "handler")
    => (os.fds = 0 /\ os.maps = {})

\* C29: whatever string is fed to a fresh parser, the feed comes to an end
\* (the parser is never in a loop that does not end), and then the parser
\* has reported an error or is freed without a fault.
C29_FeedEndsAndFrees ==
    (lx.fn = "LLVMFuzzerTestOneInput")
    => parser.fate \notin {"hung", "crashed"}

\* the places of the separators = and : among the bytes after the key
SeparatorsAt(seps) == {i \in DOMAIN seps : seps[i] \in {"=", ":"}}

\* a value begins after the bytes that follow the key
ValueBegins ==
    /\ lx.seps # <<>>
    /\ lx.tail # <<>>
    /\ Head(lx.tail) # "#"

\* C30: a key may be followed by whitespace and at most one separator out
\* of = and : before the value begins: the key is then read and the cursor
\* stands on the value; a second separator is not accepted, the call fails
\* on it with the error of an unexpected character.
C30_AtMostOneSeparator ==
    (/\ lx.fn = "ucl_parse_key"
     /\ lx.out # NoResult
     /\ ValueBegins)
    => IF Cardinality(SeparatorsAt(lx.seps)) <= 1
       THEN /\ lx.out.ok
            /\ lx.out.chunk.pos = 2 + Len(lx.seps)
            /\ lx.out.objs[lx.out.parser.cur_obj].key = <<"a">>
       ELSE LET first  == CHOOSE i \in SeparatorsAt(lx.seps) :
                             \A k \in SeparatorsAt(lx.seps) : i <= k
                second == CHOOSE i \in SeparatorsAt(lx.seps) \ {first} :
                             \A k \in SeparatorsAt(lx.seps) \ {first} : i <= k
            IN  /\ ~ lx.out.ok
                /\ ~ lx.out.hung
                /\ lx.out.chunk.pos = 1 + second
                /\ lx.out.objs = KeyObjects
                /\ lx.out.err.msg = IF lx.seps[second] = "="
                                    THEN "unexpected '=' character"
                                    ELSE "unexpected ':' character"

\* `a =: 1;` has been refused at the colon
C30_Witness ==
    /\ lx.fn = "ucl_parse_key"
    /\ lx.out # NoResult
    /\ lx.seps = <<" ", "=", ":">>
    /\ lx.tail = Bytes("1;")
    /\ ~ lx.out.ok
    /\ lx.out.chunk.pos = 4

\* the parser has given the object its tag: ucl_object_new leaves it unset
Tagged(O, o) == O[o].type # ucl_object_new.type

\* C31: the tag of a value never changes once the value is constructed:
\* in every step, an object that has its tag keeps it.
C31_TagIsStable ==
    [][\A o \in DOMAIN objs :
          Tagged(objs, o) => /\ o \in DOMAIN objs'
                             /\ objs'[o].type = objs[o].type]_vars

\* a boolean, a float and a time have been parsed into one array, and the
\* parser has since worked through a second chunk
C31_Witness ==
    /\ hist.calls = 2
    /\ hist.last = "false"
    /\ \E b, f, s \in DOMAIN objs :
          /\ objs[b].type = "UCL_BOOLEAN"
          /\ objs[f].type = "UCL_FLOAT"
          /\ objs[s].type = "UCL_TIME"

\* C32: the nesting depth counter equals the number of chunks on the chunk
\* stack of the parser, so that a chunk which has been parsed and popped no
\* longer counts toward UCL_MAX_RECURSION.
C32_DepthCountsStackedChunks ==
    parser.fate = "live" => parser.recursion = Len(parser.chunks)

\* the closing bracket c closes a container of type ty
Closes(c, ty) ==
    \/ c = "}" /\ ty = "UCL_OBJECT"
    \/ c = "]" /\ ty = "UCL_ARRAY"

RECURSIVE ClosersRead(_, _, _)
\* the closing brackets among the bytes from..(to - 1) of data, in order
ClosersRead(data, from, to) ==
    IF from >= to THEN <<>>
    ELSE (IF data[from] \in Closers THEN <<data[from]>> ELSE <<>>)
             \o ClosersRead(data, from + 1, to)

\* C34: in AFTER_VALUE a } pops a frame only when the top frame is an
\* object and a ] only when it is an array; the turn that stops on a
\* closing bracket without having emptied the stack has failed: the bracket
\* does not match the top frame or the stack is empty, and the parser is in
\* ERROR with an error set.  (Stated for a turn that reads no comment.)
C34_CloserMatchesTopFrame ==
    [][(InState("AFTER_VALUE") /\ parser'.fate = "live")
       => LET data    == TopData.data
              to      == parser'.chunks[Top.ci].pos
              failed  == /\ frames'[Len(frames)].pc = "ret"
                         /\ ~ frames'[Len(frames)].res
              emptied == /\ ~ failed
                         /\ parser.stack # <<>>
                         /\ parser'.stack = <<>>
              read    == ClosersRead(data, TopData.pos, to)
                            \o (IF emptied THEN <<data[to]>> ELSE <<>>)
          IN  (\A i \in TopData.pos..(to - 1) : data[i] \notin {"/", "#"})
              => /\ Len(read) <= Len(parser.stack)
                 /\ parser'.stack
                       = SubSeq(parser.stack, Len(read) + 1, Len(parser.stack))
                 /\ \A k \in 1..Len(read) :
                       Closes(read[k], objs[parser.stack[k]].type)
                 /\ (to <= Len(data) /\ data[to] \in Closers /\ ~ emptied)
                       => /\ failed
                          /\ parser'.state = "ERROR"
                          /\ err' # NoErr
                          /\ \/ parser'.stack = <<>>
                             \/ ~ Closes(data[to],
                                         objs[Head(parser'.stack)].type)]_vars

\* the ] after {a=1 has met the object on top of the stack: the turn has
\* failed and the stack still holds the object
C34_Witness ==
    /\ parser.fate = "live"
    /\ parser.state = "ERROR"
    /\ parser.prev_state = "AFTER_VALUE"
    /\ err # NoErr
    /\ err.msg = "unexpected terminating symbol detected"
    /\ parser.stack # <<>>
    /\ objs[Head(parser.stack)].type = "UCL_OBJECT"
    /\ err.character = "]"

\* a } has been read in AFTER_VALUE on an empty stack
C34_EmptyStackCloser ==
    /\ parser.fate = "live"
    /\ parser.state = "ERROR"
    /\ err # NoErr
    /\ err.msg = "unexpected } detected"

\* C35: ucl_parser_get_object returns NULL whenever the parser is in state
\* INIT or ERROR, and in every other state it returns the top object of
\* the parser, which exists.
C35_GetObjectByState ==
    [][GetObject
       => IF parser.state \in {"INIT", "ERROR"}
          THEN hist'.got = NULL
          ELSE /\ hist'.got # NULL
               /\ hist'.got = parser.top_obj
               /\ hist'.got \in DOMAIN objs']_vars

\* the program holds the top object of a parser that is between two keys
C35_Witness ==
    /\ parser.fate = "live"
    /\ parser.state = "KEY"
    /\ frames = <<>>
    /\ hist.got # NULL
    /\ hist.got = parser.top_obj
    /\ hist.held = 1

\* within one call of ucl_parser_add_chunk an error that is set is kept
FirstErrorKept ==
    [][(err # NoErr /\ hist'.calls = hist.calls) => err' = err]_vars

\* C36: the error a parser reports carries the line and the column of a
\* chunk cursor: whenever an error is set, its message has both.
C36_ErrorCarriesLineAndColumn ==
    err # NoErr => /\ "line" \in DOMAIN err
                   /\ "column" \in DOMAIN err

(***************************************************************************)
(* Claims about the lexer.                                                 *)
(***************************************************************************)
RECURSIVE RefBlockEnd(_, _, _)
\* The index after the `*/` that matches the `/*` before index i, reading
\* the bytes from i left to right with `depth` comments open; 0 when the
\* buffer ends first.
RefBlockEnd(data, i, depth) ==
    IF i > Len(data) THEN 0
    ELSE IF i < Len(data) /\ data[i] = "*" /\ data[i + 1] = "/"
    THEN IF depth = 1 THEN i + 2 ELSE RefBlockEnd(data, i + 2, depth - 1)
    ELSE IF i < Len(data) /\ data[i] = "/" /\ data[i + 1] = "*"
    THEN RefBlockEnd(data, i + 2, depth + 1)
    ELSE RefBlockEnd(data, i + 1, depth)

StartsBlock(data, i) ==
    i < Len(data) /\ data[i] = "/" /\ data[i + 1] = "*"

\* C9: a buffer that begins with a block comment: the comment ends exactly
\* after the `*/` that matches every nested `/*`, the cursor then stands
\* there (on the first byte that opens no further comment) and no error is
\* reported; when the buffer ends with comments still open the call fails
\* with the nesting error.  Stated for buffers followed by a NUL byte.
C9_BlockCommentBalanced ==
    (/\ lx.fn = "ucl_skip_comments"
     /\ lx.out # NoResult
     /\ over = NUL
     /\ StartsBlock(lx.chunk.data, 1))
    => LET data == lx.chunk.data
           e == RefBlockEnd(data, 3, 1)
       IN  IF e = 0
           THEN /\ lx.out.ok = FALSE
                /\ lx.out.err.msg = "comments nesting is invalid"
           ELSE /\ lx.out.ok = TRUE
                /\ lx.out.err = NoErr
                /\ lx.out.chunk.pos >= e
                /\ (~ StartsBlock(data, e) /\ ByteAt(lx.chunk, e) # "#")
                       => lx.out.chunk.pos = e

\* C10: when ucl_lex_number returns false without moving the parser to
\* ERROR, the chunk is what it was before the call: pos, line, column and
\* remain.
C10_NotNumberRestoresCursor ==
    (/\ lx.fn = "ucl_lex_number"
     /\ lx.out # NoResult
     /\ lx.out.ret = FALSE
     /\ lx.out.state # "ERROR")
    => lx.out.chunk = lx.chunk

\* the atom starts with an integer literal that leaves the range of
\* intmax_t, or with a floating literal that leaves the range of a double
IntegerOverflows(chunk) ==
    /\ strtoimax(chunk, 1).erange
    /\ ByteAt(chunk, strtoimax(chunk, 1).endptr) \notin {".", "e", "E"}

FloatOverflows(chunk) ==
    /\ strtod(chunk, 1).erange
    /\ strtod(chunk, 1).endptr # strtoimax(chunk, 1).endptr
    /\ ByteAt(chunk, strtod(chunk, 1).endptr) \notin {".", "e", "E"}

\* C11: a numeric literal whose conversion overflows is reported as the
\* error "numeric value is out of range" and the parser state becomes ERROR.
C11_OverflowIsRangeError ==
    (/\ lx.fn = "ucl_lex_number"
     /\ lx.out # NoResult
     /\ IntegerOverflows(lx.chunk) \/ FloatOverflows(lx.chunk))
    => /\ ~ lx.out.ret
       /\ lx.out.state = "ERROR"
       /\ lx.out.err.msg = "numeric value is out of range"

\* the integer 19223372036854775808 has been lexed
C11_Witness ==
    /\ lx.fn = "ucl_lex_number"
    /\ lx.out # NoResult
    /\ IntegerOverflows(lx.chunk)
    /\ lx.chunk.data[1] = "1"
    /\ lx.out.state = "ERROR"


\* where the literal at the start of the chunk ends, and its value
LiteralEnd == strtod(lx.chunk, 1).endptr

\* the atom ends at p: the chunk ends there or a byte that ends a value
\* stands there
AtomEndsAt(p) ==
    p >= End(lx.chunk) \/ ucl_lex_is_atom_end(ByteAt(lx.chunk, p))

\* the time suffix after the literal, "" when there is none
TimeSuffix ==
    LET p  == LiteralEnd
        b0 == IF p < End(lx.chunk) THEN tolower(ByteAt(lx.chunk, p)) ELSE ""
        b1 == IF p + 1 < End(lx.chunk) THEN tolower(ByteAt(lx.chunk, p + 1)) ELSE ""
        b2 == IF p + 2 < End(lx.chunk) THEN tolower(ByteAt(lx.chunk, p + 2)) ELSE ""
    IN  IF b0 \in {"h", "d", "w", "y", "s"} /\ AtomEndsAt(p + 1) THEN b0
        ELSE IF b0 = "m" /\ b1 = "s" /\ AtomEndsAt(p + 2) THEN "ms"
        ELSE IF b0 = "m" /\ b1 = "i" /\ b2 = "n" /\ AtomEndsAt(p + 3) THEN "min"
        ELSE ""

\* the seconds in one unit of a suffix
SecondsIn(suffix) ==
    CASE suffix = "h" -> 3600
      [] suffix = "d" -> 86400
      [] suffix = "w" -> 604800
      [] suffix = "y" -> 31536000
      [] suffix = "min" -> 60
      [] OTHER -> 1

\* C28: a number with the suffix h, d, w or y is a time value of the number
\* times 3600, 86400, 604800 or 31536000; with ms it is the number divided
\* by 1000, with min the number times 60 and with s the number itself.
C28_TimeSuffixes ==
    (/\ lx.fn = "ucl_lex_number"
     /\ lx.out # NoResult
     /\ LiteralEnd > 1
     /\ ~ strtod(lx.chunk, 1).erange
     /\ TimeSuffix # "")
    => /\ lx.out.ret
       /\ lx.out.type = "UCL_TIME"
       /\ lx.out.value.mult = SecondsIn(TimeSuffix)
       /\ lx.out.value.scale = strtod(lx.chunk, 1).value.scale
                               - (IF TimeSuffix = "ms" THEN 3 ELSE 0)
       /\ lx.out.value.digits = strtod(lx.chunk, 1).value.digits

\* pointer + remaining is the end of the chunk
CursorConsistent(chunk) == chunk.pos + chunk.remain = End(chunk)

\* C33: at every moment pointer + remaining equals the end of the chunk:
\* it does when ucl_lex_number is called and when it has returned.
C33_CursorPlusRemainIsEnd ==
    lx.fn = "ucl_lex_number" =>
        /\ CursorConsistent(lx.chunk)
        /\ lx.out # NoResult => CursorConsistent(lx.out.chunk)

(***************************************************************************)
(* Claims about the schema validator.                                      *)
(***************************************************************************)
Validated ==
    /\ lx.fn = "ucl_object_validate"
    /\ lx.out # NoResult

(* A sub-schema validates a candidate when every outcome of the call on a *)
(* zeroed record returns true.                                            *)
Validates(schema, obj) ==
    \A r \in ucl_schema_validate(schema, obj, ZeroRecord) : r.ret /\ ~ r.crash

Alternatives(schema, key) == ucl_object_find_key(schema, key).elts

ValidatingAlternatives(schema, key, obj) ==
    {i \in DOMAIN Alternatives(schema, key) :
        Validates(Alternatives(schema, key)[i].obj, obj)}

(* The schema without one of its keys. *)
Without(schema, key) ==
    [schema EXCEPT !.elts = SelectSeq(schema.elts, LAMBDA e : e.key # key)]

\* C18: a schema with oneOf accepts a candidate if and only if exactly one
\* of the listed sub-schemas validates it, whatever other keys the schema
\* carries: an accepted candidate has exactly one validating alternative,
\* and a candidate with exactly one validating alternative that the rest
\* of the schema accepts is accepted.
C18_OneOfExactlyOne ==
    (Validated /\ lx.err # NoRecord /\ IsArrayKey(lx.schema, "oneOf"))
        => /\ lx.out.ret
                => Cardinality(ValidatingAlternatives(lx.schema, "oneOf", lx.obj)) = 1
           /\ ( /\ Cardinality(ValidatingAlternatives(lx.schema, "oneOf", lx.obj)) = 1
                /\ Validates(Without(lx.schema, "oneOf"), lx.obj) )
                => lx.out.ret

\* C19: a schema with anyOf rejects a candidate that none of the listed
\* sub-schemas validates; a schema of anyOf alone accepts a candidate that
\* one of them validates, and then the code of the error record is
\* UCL_SCHEMA_OK whatever the failing alternatives wrote.
C19_AnyOfAtLeastOne ==
    (Validated /\ lx.err # NoRecord /\ IsArrayKey(lx.schema, "anyOf"))
        => /\ lx.out.ret
                => ValidatingAlternatives(lx.schema, "anyOf", lx.obj) # {}
           /\ ( /\ Len(lx.schema.elts) = 1
                /\ ValidatingAlternatives(lx.schema, "anyOf", lx.obj) # {} )
                => lx.out.ret /\ lx.out.err.code = "UCL_SCHEMA_OK"

\* C20: when validation returns false the error record holds a failure
\* (a code other than UCL_SCHEMA_OK, and the value it is about); when the
\* caller passes no error record the call still returns, and returns what
\* a call with a record can return.
C20_ErrorRecordAndNoRecord ==
    Validated
        => /\ (lx.err # NoRecord /\ ~ lx.out.crash /\ ~ lx.out.ret)
                => /\ lx.out.err.code # "UCL_SCHEMA_OK"
                   /\ lx.out.err.obj # NoValue
           /\ lx.err = NoRecord
                => /\ ~ lx.out.crash
                   /\ \E r \in ucl_object_validate(lx.schema, lx.obj, ZeroRecord) :
                         r.ret = lx.out.ret


HasKey(schema, key) == ucl_object_find_key(schema, key) # NoValue

KeysOf(schema) == {schema.elts[i].key : i \in DOMAIN schema.elts}

FlagSet(schema, key) ==
    /\ ucl_object_find_key(schema, key).type = "UCL_BOOLEAN"
    /\ ucl_object_find_key(schema, key).iv = 1

(* What the bounds of a schema ask of a number, each bound with its own  *)
(* flag.                                                                 *)
WithinBounds(schema, n) ==
    /\ HasKey(schema, "minimum")
         => IF FlagSet(schema, "exclusiveMinimum")
            THEN n > ucl_object_find_key(schema, "minimum").iv
            ELSE n >= ucl_object_find_key(schema, "minimum").iv
    /\ HasKey(schema, "maximum")
         => IF FlagSet(schema, "exclusiveMaximum")
            THEN n < ucl_object_find_key(schema, "maximum").iv
            ELSE n <= ucl_object_find_key(schema, "maximum").iv

\* C21: minimum and maximum are inclusive bounds, each strict only when
\* its own flag is true: a schema of bounds and flags accepts an integer
\* exactly when the integer is within the bounds so read.
C21_BoundsStrictByOwnFlag ==
    ( /\ Validated
      /\ lx.err # NoRecord
      /\ lx.obj.type = "UCL_INT"
      /\ lx.schema.type = "UCL_OBJECT"
      /\ KeysOf(lx.schema) \subseteq {"minimum", "maximum", "exclusiveMinimum",
                                     "exclusiveMaximum"} )
        => (lx.out.ret <=> WithinBounds(lx.schema, lx.obj.iv))

\* C22: under type number an integer or a time candidate is accepted as a
\* number and is then subject to the number constraints: it is accepted
\* exactly when it is within the bounds of the schema.
C22_NumberCandidatesConstrained ==
    ( /\ Validated
      /\ lx.err # NoRecord
      /\ lx.obj.type \in {"UCL_INT", "UCL_TIME"}
      /\ ucl_object_find_key(lx.schema, "type") = StringValue("number", 6)
      /\ KeysOf(lx.schema) \subseteq {"type", "minimum", "maximum"} )
        => (lx.out.ret <=> WithinBounds(lx.schema, lx.obj.iv))


(***************************************************************************)
(* Claims about the hash table.                                            *)
(***************************************************************************)
HashCalled(op) ==
    /\ lx.fn = "ucl_hash"
    /\ lx.last.op = op

RECURSIVE Ascending(_)
Ascending(S) ==
    IF S = {} THEN <<>>
    ELSE <<CHOOSE k \in S : \A j \in S : k <= j>>
         \o Ascending(S \ {CHOOSE k \in S : \A j \in S : k <= j})

\* C23: after any sequence of inserts and deletes, iteration returns
\* exactly the elements stored (inserted and not removed), each once, in
\* the order of their insertion.
C23_IterationIsStoredInOrder ==
    HashCalled("iterate")
        => /\ ~ lx.last.crashed
           /\ lx.last.seen = Ascending(lx.live)

\* C24: at any moment, a grow or a shrink under way included, the bucket
\* ucl_hash_bucket gives for the hash of a stored element contains that
\* element.
C24_BucketHoldsStored ==
    (lx.fn = "ucl_hash" /\ ~ lx.last.crashed)
        => \A k \in lx.live :
              k \in Range(BucketFrom(lx.N, ucl_hash_bucket(lx.h, lx.N[k].key),
                                     Len(lx.N)))

(* The stored elements a call of ucl_hash_remove asks for. *)
Matching(live, N, pattern, hash, arg) ==
    {k \in live : N[k].key = hash /\ ValueOf(pattern, k) = arg}

\* C25: ucl_hash_remove removes and returns the first of the stored
\* elements with the given hash that compare equal, and returns 0 and
\* leaves the table unchanged when there is none.
C25_RemoveFirstEqual ==
    [][ (lx.fn = "ucl_hash" /\ lx'.last.op = "remove" /\ ~ lx'.last.crashed)
            => IF Matching(lx.live, lx.N, lx.pattern, lx'.last.hash,
                           lx'.last.arg) = {}
               THEN /\ lx'.last.ret = 0
                    /\ lx'.h = lx.h
                    /\ lx'.N = lx.N
               ELSE /\ lx'.last.ret =
                          Ascending(Matching(lx.live, lx.N, lx.pattern,
                                             lx'.last.hash, lx'.last.arg))[1]
                    /\ lx'.h.count = lx.h.count - 1 ]_vars

(* A step of the table, its call in lx'.last. *)
Resizing(op) ==
    /\ lx.fn = "ucl_hash"
    /\ lx'.last.op = op
    /\ ~ lx'.last.crashed

InBuckets(h, N) ==
    UNION {Range(BucketFrom(N, h.bucket[s][p], Len(N))) :
              <<s, p>> \in {<<s, p>> \in (DOMAIN h.bucket) \X (1..h.bucket_max) :
                               p \in DOMAIN h.bucket[s]}}

\* C37: after any sequence of inserts and removes the count of the table is
\* the number of nodes on the chains of its buckets and the number of nodes
\* on its list in insertion order.
C37_CountIsBucketsIsList ==
    (lx.fn = "ucl_hash" /\ ~ lx.last.crashed)
        => /\ lx.h.count = Cardinality(InBuckets(lx.h, lx.N))
           /\ lx.h.count = Len(lx.h.nodes)

EmitCalled(id) == lx.fn = "ucl_object_emit" /\ lx.last.op = "emit" /\ lx.last.id = id

\* the output without the spaces and the line ends of the layout
Stripped(out) == SelectSeq(out, LAMBDA c : c \notin {" ", "\n"})

Contains(out, text) ==
    \E i \in 0..(Len(out) - Len(text)) : SubSeq(out, i + 1, i + Len(text)) = text

Occurrences(out, c) == Cardinality({i \in DOMAIN out : out[i] = c})

RECURSIVE Joined(_, _)
\* the texts of a sequence, with sep between two of them
Joined(texts, sep) ==
    IF texts = <<>> THEN <<>>
    ELSE IF Len(texts) = 1 THEN texts[1]
    ELSE texts[1] \o sep \o Joined(Tail(texts), sep)

RECURSIVE JsonOf(_)
\* the JSON text of a value: a key with several siblings is one member
\* whose value is the array of the siblings
JsonMember(cur) ==
    <<"\"">> \o Bytes(cur[1].key) \o <<"\"", ":">> \o
    (IF Len(cur) > 1
     THEN <<"[">> \o Joined([i \in DOMAIN cur |-> JsonOf(cur[i])], <<",">>) \o <<"]">>
     ELSE JsonOf(cur[1]))

JsonOf(v) ==
    CASE v.type = "UCL_INT" -> NatText(v.iv)
      [] v.type = "UCL_FLOAT" -> NatText(v.iv) \o <<".", "0">>
      [] v.type = "UCL_BOOLEAN" -> IF v.iv # 0 THEN Bytes("true") ELSE Bytes("false")
      [] v.type = "UCL_STRING" -> <<"\"">> \o Bytes(v.sv) \o <<"\"">>
      [] v.type = "UCL_ARRAY" ->
            <<"[">> \o Joined([i \in DOMAIN v.av |-> JsonOf(v.av[i])], <<",">>) \o <<"]">>
      [] v.type = "UCL_OBJECT" ->
            <<"{">> \o Joined([i \in DOMAIN v.ov |-> JsonMember(v.ov[i])], <<",">>) \o <<"}">>

RECURSIVE ConfigOf(_)
\* the config entry of a value under its key, without the layout
ConfigOf(v) ==
    CASE v.type = "UCL_INT" -> Bytes(v.key) \o <<"=">> \o NatText(v.iv) \o <<";">>
      [] v.type = "UCL_STRING" ->
            Bytes(v.key) \o <<"=", "\"">> \o Bytes(v.sv) \o <<"\"", ";">>
      [] v.type = "UCL_OBJECT" ->
            Bytes(v.key) \o <<"{">> \o
            Joined([i \in DOMAIN v.ov |->
                       Joined([j \in DOMAIN v.ov[i] |-> ConfigOf(v.ov[i][j])], <<>>)],
                   <<>>) \o <<"}">>

\* the siblings under the first key of the object being emitted
Siblings == lx.obj.ov[1]

Openers == {"{", "["}

\* the containers open after the first n bytes of the output
DepthAfter(out, n) ==
    Cardinality({i \in 1..n : out[i] \in Openers})
        - Cardinality({i \in 1..n : out[i] \in Closers})

RECURSIVE Lead(_, _)
\* the spaces the line that starts at i begins with
Lead(out, i) ==
    IF i <= Len(out) /\ out[i] = " " THEN 1 + Lead(out, i + 1) ELSE 0

\* the places of the output where a line that is not empty starts
LineStarts(out) ==
    {i \in DOMAIN out :
        /\ i = 1 \/ out[i - 1] = "\n"
        /\ i + Lead(out, i) <= Len(out)
        /\ out[i + Lead(out, i)] # "\n"}

\* C39: while a value tree is emitted the indentation level is the depth of
\* the containers that are open, and it is back at its starting level when
\* the emit has finished: every line of the output starts with four spaces
\* for each container open at that point (a line that closes a container
\* stands at the level of the line that opened it), and the level of the
\* context is 0 at the end.
C39_IndentIsNestingDepth ==
    (lx.fn = "ucl_object_emit" /\ lx.last.op = "emit" /\ ~ lx.last.crashed)
    => /\ lx.last.ident = 0
       /\ DepthAfter(lx.last.out, Len(lx.last.out)) = 0
       /\ ~ Compact(lx.last.id)
             => \A i \in LineStarts(lx.last.out) :
                   LET out == lx.last.out
                       at  == i + Lead(out, i)
                   IN  Lead(out, i)
                          = 4 * (DepthAfter(out, i - 1)
                                   - (IF out[at] \in Closers THEN 1 ELSE 0))

\* an object in an array in an object has been written as JSON, its keys
\* three containers deep
C39_Witness ==
    /\ EmitCalled(UCL_EMIT_JSON)
    /\ ~ lx.last.crashed
    /\ lx.last.ident = 0
    /\ \E i \in LineStarts(lx.last.out) :
          /\ Lead(lx.last.out, i) = 12
          /\ DepthAfter(lx.last.out, i - 1) = 3

====
